---- MODULE Spec2Model ----
(***************************************************************************)
(* Model of the CSP-to-SAT encoder of enigma_csp (src/encoder.rs).         *)
(*                                                                         *)
(* SAT literals are nonzero integers: variable v is the literal v, its     *)
(* negation is -v.  Rust vectors are sequences (index i of the source is   *)
(* index i+1 here); Option<T> is a sequence of length 0 (None) or 1 (Some).*)
(***************************************************************************)
EXTENDS Integers, Sequences, FiniteSets, TLC

VARIABLES norm_vars, sat, map, config, call, norm_csp

vars == <<norm_vars, sat, map, config, call, norm_csp>>

----------------------------------------------------------------------------
(* Bounds of the explored inputs *)

MaxCoef == 3
MaxConst == 1

----------------------------------------------------------------------------
(* Generic helpers *)

None == <<>>

Some(x) == <<x>>

Min2(a, b) == IF a <= b THEN a ELSE b

Max2(a, b) == IF a >= b THEN a ELSE b

Abs(a) == IF a >= 0 THEN a ELSE -a

RECURSIVE Pow2(_)
Pow2(n) == IF n = 0 THEN 1 ELSE 2 * Pow2(n - 1)

\* bit i of the non-negative integer n: (n >> i) & 1
Bit(n, i) == (n \div Pow2(i)) % 2

\* 32 - leading_zeros(n) for 0 <= n < 2^31
RECURSIVE BitLength(_)
BitLength(n) == IF n = 0 THEN 0 ELSE 1 + BitLength(n \div 2)

SeqMin(s) == CHOOSE x \in {s[k] : k \in 1..Len(s)} : \A k \in 1..Len(s) : x <= s[k]

SeqMax(s) == CHOOSE x \in {s[k] : k \in 1..Len(s)} : \A k \in 1..Len(s) : x >= s[k]

RECURSIVE Concat(_)
Concat(ss) == IF Len(ss) = 0 THEN <<>> ELSE Head(ss) \o Concat(Tail(ss))

\* CheckedInt::max_value()
CheckedIntMax == 2147483647

Neg(l) == -l

\* a sequence with its elements computed once
Strict(seq) == seq \o <<>>

----------------------------------------------------------------------------
(* ClauseSet: flat literal array plus index array *)

ClauseSetNew == [data |-> <<>>, indices |-> <<0>>]

\* value of a computation that panicked (no ClauseSet has an empty index array)
Panicked == [data |-> <<>>, indices |-> <<>>]

ClauseSetLen(cs) == Len(cs.indices) - 1

ClauseSetPush(cs, clause) ==
    IF cs = Panicked THEN Panicked
    ELSE [data |-> cs.data \o clause,
          indices |-> Append(cs.indices, Len(cs.data) + Len(clause))]

\* append that copies the boundaries of `other` without the offset
ClauseSetAppend_NoOffset(cs, other) ==
    IF cs = Panicked \/ other = Panicked THEN Panicked
    ELSE [data |-> cs.data \o other.data,
          indices |-> cs.indices \o
                      [i \in 1..(Len(other.indices) - 1) |-> other.indices[i + 1]]]

ClauseSetAppend(cs, other) ==
    IF cs = Panicked \/ other = Panicked THEN Panicked
    ELSE LET offset == Len(cs.data) IN
         [data |-> cs.data \o other.data,
          indices |-> cs.indices \o
                      [i \in 1..(Len(other.indices) - 1) |-> other.indices[i + 1] + offset]]

\* ClauseSet::new() followed by a push of each of the clauses cls[lo..hi] in turn
RECURSIVE ClauseSetFromRange(_, _, _)
ClauseSetFromRange(cls, lo, hi) ==
    IF lo > hi THEN ClauseSetNew
    ELSE IF lo = hi THEN ClauseSetPush(ClauseSetNew, cls[lo])
    ELSE ClauseSetAppend(ClauseSetFromRange(cls, lo, (lo + hi) \div 2),
                         ClauseSetFromRange(cls, (lo + hi) \div 2 + 1, hi))

ClauseSetFromSeq(cls) == ClauseSetFromRange(cls, 1, Len(cls))

\* the entry that a panicking computation leaves in a sequence of pushed clauses
\* (0 is no literal)
PanicClause == <<0>>

\* the ClauseSet of a recursion that pushed the clauses cls
ClauseSetPushed(cls) ==
    IF \E k \in 1..Len(cls) : cls[k] = PanicClause THEN Panicked ELSE ClauseSetFromSeq(cls)

\* clause_set[index], index counted from 0
ClauseSetIndex(cs, index) ==
    SubSeq(cs.data, cs.indices[index + 1] + 1, cs.indices[index + 2])

\* the clauses of a ClauseSet, in order
ClauseSetClauses(cs) == Strict([i \in 1..ClauseSetLen(cs) |-> ClauseSetIndex(cs, i - 1)])

----------------------------------------------------------------------------
(* SAT instance *)

SatNew == [nvars |-> 0, clauses |-> <<>>, linears |-> <<>>, graphs |-> <<>>]

\* sat.new_vars_as_lits(n): the literals allocated by the call
NewLits(s, n) == [i \in 1..n |-> s.nvars + i]

SatAlloc(s, n) == [s EXCEPT !.nvars = @ + n]

SatAddClause(s, clause) == [s EXCEPT !.clauses = Append(@, clause)]

SatAddClauses(s, cls) == [s EXCEPT !.clauses = @ \o cls]

SatAddClauseSet(s, cs) == SatAddClauses(s, ClauseSetClauses(cs))

\* SAT::add_active_vertices_connected: the constraint is kept as given, after the
\* clauses added so far
SatAddActiveVerticesConnected(s, lits, edges) ==
    [s EXCEPT !.graphs = Append(@, [lits |-> lits, edges |-> edges, at |-> Len(s.clauses)])]

\* a model is the sequence of the truth values of the variables 1..nvars
LitTrue(m, l) == IF l > 0 THEN m[l] ELSE ~m[-l]

ClauseHolds(m, cl) == \E k \in 1..Len(cl) : LitTrue(m, cl[k])

RECURSIVE MaxAbs(_, _, _)
MaxAbs(cl, k, acc) == IF k > Len(cl) THEN acc ELSE MaxAbs(cl, k + 1, Max2(acc, Abs(cl[k])))

MaxVarOf(cl) == MaxAbs(cl, 1, 0)

\* value of an order-encoded term under a model, as the native primitive reads it
LinearTermValue(m, lits, domain) ==
    domain[1 + Cardinality({k \in 1..Len(lits) : LitTrue(m, lits[k])})]

RECURSIVE SumSeq(_)
SumSeq(s) == IF Len(s) = 0 THEN 0 ELSE Head(s) + SumSeq(Tail(s))

\* add_order_encoding_linear(lits, domain, coefs, constant): sum >= 0
LinearHolds(m, lin) ==
    SumSeq([i \in 1..Len(lin.lits) |->
              lin.coefs[i] * LinearTermValue(m, lin.lits[i], lin.domain[i])])
        + lin.constant >= 0

LinearMaxVar(lin) == MaxVarOf(Concat(lin.lits))

\* the models of the constraints over the variables lo..hi that extend a
\* partial model of ms; a constraint is tested as soon as its last variable
\* is assigned
RECURSIVE ModelsFrom(_, _, _, _, _)
ModelsFrom(ms, lo, hi, clausesAt, linearsAt) ==
    IF Len(ms) = 0 \/ lo > hi THEN ms
    ELSE IF lo = hi THEN
        LET ok(mm) == /\ \A k \in 1..Len(clausesAt[lo]) : ClauseHolds(mm, clausesAt[lo][k])
                      /\ \A k \in 1..Len(linearsAt[lo]) : LinearHolds(mm, linearsAt[lo][k])
        IN SelectSeq([k \in 1..(2 * Len(ms)) |-> Append(ms[(k + 1) \div 2], k % 2 = 0)], ok)
    ELSE LET mid == (lo + hi) \div 2 IN
         ModelsFrom(ModelsFrom(ms, lo, mid, clausesAt, linearsAt), mid + 1, hi,
                    clausesAt, linearsAt)

\* all models of the SAT instance (what repeated solve-and-block enumerates)
ModelSeq(s) ==
    LET clausesAt == Strict([v \in 1..s.nvars |->
                               SelectSeq(s.clauses, LAMBDA c : MaxVarOf(c) = v)])
        linearsAt == Strict([v \in 1..s.nvars |->
                               SelectSeq(s.linears, LAMBDA l : LinearMaxVar(l) = v)])
    IN IF (\E k \in 1..Len(s.clauses) : Len(s.clauses[k]) = 0)
          \/ (\E k \in 1..Len(s.linears) :
                LinearMaxVar(s.linears[k]) = 0 /\ ~LinearHolds(<<>>, s.linears[k]))
       THEN <<>>
       ELSE ModelsFrom(<< <<>> >>, 1, s.nvars, clausesAt, linearsAt)

Models(s) == LET ms == ModelSeq(s) IN {ms[k] : k \in 1..Len(ms)}

----------------------------------------------------------------------------
(* Normalized CSP variables *)

NormVarsNew == [int_var |-> <<>>, num_bool_var |-> 0]

DomainRepr(d) == [kind |-> "Domain", domain |-> d]

BinaryRepr(cond, f, t) == [kind |-> "Binary", cond |-> cond, f |-> f, t |-> t]

BoolLit(v, negated) == [var |-> v, negated |-> negated]

\* NormCSPVars::new_int_var
NewIntVar(nv, repr) == [nv EXCEPT !.int_var = Append(@, repr)]

IntVars(nv) == 1..Len(nv.int_var)

\* values a variable may take
ReprValues(repr) ==
    IF repr.kind = "Domain" THEN {repr.domain[k] : k \in 1..Len(repr.domain)}
    ELSE {repr.f, repr.t}

\* the NormCSP besides its variables: the pending constraints, the pending extra
\* constraints and the watermark of the variables already encoded
NormNew == [constraints |-> <<>>, extra_constraints |-> <<>>, num_encoded_vars |-> 0]

\* NormCSP::unencoded_int_vars: the variables above the watermark, in order
unencoded_int_vars(nv, nm) ==
    [k \in 1..(Len(nv.int_var) - nm.num_encoded_vars) |-> nm.num_encoded_vars + k]

----------------------------------------------------------------------------
(* Encodings and the encode map *)

Range(low, high) == [low |-> low, high |-> high]

OrderEncoding(domain, lits) == [domain |-> domain, lits |-> lits]

DirectEncoding(domain, lits) == [domain |-> domain, lits |-> lits]

LogEncoding(lits, range) == [lits |-> lits, range |-> range]

EncodingOrder(enc) ==
    [order_encoding |-> Some(enc), direct_encoding |-> None, log_encoding |-> None]

EncodingDirect(enc) ==
    [order_encoding |-> None, direct_encoding |-> Some(enc), log_encoding |-> None]

EncodingLog(enc) ==
    [order_encoding |-> None, direct_encoding |-> None, log_encoding |-> Some(enc)]

is_direct_encoding(e) == e.direct_encoding # None

is_direct_or_order_encoding(e) == e.order_encoding # None \/ e.direct_encoding # None

DomainRange(domain) == Range(domain[1], domain[Len(domain)])

\* the domain of an order or direct encoding
EncodingDomain(e) ==
    IF e.order_encoding # None THEN e.order_encoding[1].domain ELSE e.direct_encoding[1].domain

EncodingRange(e) ==
    IF e.order_encoding # None THEN DomainRange(e.order_encoding[1].domain)
    ELSE IF e.direct_encoding # None THEN DomainRange(e.direct_encoding[1].domain)
    ELSE e.log_encoding[1].range

\* bool_map and int_map hold an Option per variable
EncodeMapNew == [bool_map |-> <<>>, int_map |-> <<>>]

BoolMapGet(mp, v) == IF v \in DOMAIN mp.bool_map THEN mp.bool_map[v] ELSE None

IntMapGet(mp, v) == IF v \in DOMAIN mp.int_map THEN mp.int_map[v] ELSE None

\* ConvertMap index assignment grows the table with None entries
SeqSet(s, v, x) == [i \in 1..Max2(Len(s), v) |-> IF i = v THEN x ELSE IF i <= Len(s) THEN s[i] ELSE None]

\* the environment threaded through the encoder: (sat, map, norm_vars)
Env(s, mp, nv) == [sat |-> s, map |-> mp, norm_vars |-> nv, panic |-> FALSE]

\* convert_bool_var: [env, lit]
convert_bool_var(env, var) ==
    IF BoolMapGet(env.map, var) # None
    THEN [env |-> env, lit |-> BoolMapGet(env.map, var)[1]]
    ELSE LET ret == env.sat.nvars + 1 IN
         [env |-> [env EXCEPT !.sat = SatAlloc(@, 1),
                              !.map.bool_map = SeqSet(@, var, Some(ret))],
          lit |-> ret]

convert_bool_lit(env, lit) ==
    LET r == convert_bool_var(env, lit.var) IN
    [env |-> r.env, lit |-> IF lit.negated THEN Neg(r.lit) ELSE r.lit]

\* convert_int_var_order_encoding without the test that the variable is unmapped
convert_int_var_order_encoding_NoGuard(env, var) ==
    LET repr == env.norm_vars.int_var[var] IN
    IF repr.kind = "Domain" THEN
       IF Len(repr.domain) = 0 THEN [env EXCEPT !.panic = TRUE]
       ELSE LET lits == NewLits(env.sat, Len(repr.domain) - 1)
                cls == [i \in 1..(Len(lits) - 1) |-> <<Neg(lits[i + 1]), lits[i]>>]
            IN [env EXCEPT !.sat = SatAddClauses(SatAlloc(@, Len(lits)), cls),
                           !.map.int_map =
                               SeqSet(@, var, Some(EncodingOrder(OrderEncoding(repr.domain, lits))))]
    ELSE LET r == convert_bool_lit(env, repr.cond) IN
         [r.env EXCEPT !.map.int_map =
              SeqSet(@, var, Some(EncodingOrder(OrderEncoding(<<repr.f, repr.t>>, <<r.lit>>))))]

\* convert_int_var_order_encoding that adds no clause
convert_int_var_order_encoding_NoClauses(env, var) ==
    IF IntMapGet(env.map, var) # None THEN env
    ELSE LET repr == env.norm_vars.int_var[var] IN
         IF repr.kind = "Domain" THEN
            IF Len(repr.domain) = 0 THEN [env EXCEPT !.panic = TRUE]
            ELSE LET lits == NewLits(env.sat, Len(repr.domain) - 1)
                 IN [env EXCEPT !.sat = SatAlloc(@, Len(lits)),
                                !.map.int_map =
                                    SeqSet(@, var, Some(EncodingOrder(OrderEncoding(repr.domain, lits))))]
         ELSE LET r == convert_bool_lit(env, repr.cond) IN
              [r.env EXCEPT !.map.int_map =
                   SeqSet(@, var, Some(EncodingOrder(OrderEncoding(<<repr.f, repr.t>>, <<r.lit>>))))]

convert_int_var_order_encoding(env, var) ==
    IF IntMapGet(env.map, var) # None THEN env
    ELSE LET repr == env.norm_vars.int_var[var] IN
         IF repr.kind = "Domain" THEN
            IF Len(repr.domain) = 0 THEN [env EXCEPT !.panic = TRUE]
            ELSE LET lits == NewLits(env.sat, Len(repr.domain) - 1)
                     cls == [i \in 1..(Len(lits) - 1) |-> <<Neg(lits[i + 1]), lits[i]>>]
                 IN [env EXCEPT !.sat = SatAddClauses(SatAlloc(@, Len(lits)), cls),
                                !.map.int_map =
                                    SeqSet(@, var, Some(EncodingOrder(OrderEncoding(repr.domain, lits))))]
         ELSE LET r == convert_bool_lit(env, repr.cond) IN
              [r.env EXCEPT !.map.int_map =
                   SeqSet(@, var, Some(EncodingOrder(OrderEncoding(<<repr.f, repr.t>>, <<r.lit>>))))]

\* the at-most-one clauses of neighbouring literals only
AtMostOneClauses_Neighbours(lits) ==
    [i \in 1..(Len(lits) - 1) |-> <<Neg(lits[i + 1]), Neg(lits[i])>>]

\* the at-most-one clauses in emission order: for i in 1..n, for j in 0..i
AtMostOneClauses(lits) ==
    Concat([i \in 1..(Len(lits) - 1) |-> [j \in 1..i |-> <<Neg(lits[i + 1]), Neg(lits[j])>>]])

convert_int_var_direct_encoding(env, var) ==
    IF IntMapGet(env.map, var) # None THEN env
    ELSE LET repr == env.norm_vars.int_var[var] IN
         IF repr.kind = "Domain" THEN
            IF Len(repr.domain) = 0 THEN [env EXCEPT !.panic = TRUE]
            ELSE LET lits == NewLits(env.sat, Len(repr.domain))
                     cls == <<lits>> \o AtMostOneClauses(lits)
                 IN [env EXCEPT !.sat = SatAddClauses(SatAlloc(@, Len(lits)), cls),
                                !.map.int_map =
                                    SeqSet(@, var, Some(EncodingDirect(DirectEncoding(repr.domain, lits))))]
         ELSE LET r == convert_bool_lit(env, repr.cond) IN
              [r.env EXCEPT !.map.int_map =
                   SeqSet(@, var, Some(EncodingDirect(
                       DirectEncoding(<<repr.f, repr.t>>, <<Neg(r.lit), r.lit>>))))]

\* the literal of bit j in a clause that excludes the bit pattern of n
LogBitLit(lits, n, j) == IF Bit(n, j) # 0 THEN Neg(lits[j + 1]) ELSE lits[j + 1]

\* clauses `lits >= low`: one per set bit of low
LogLowClauses(lits, low, n_bits) ==
    LET is == SelectSeq([i \in 1..n_bits |-> i - 1], LAMBDA i : Bit(low, i) # 0) IN
    [k \in 1..Len(is) |->
        <<lits[is[k] + 1]>> \o [j \in 1..(n_bits - 1 - is[k]) |-> LogBitLit(lits, low, is[k] + j)]]

\* clauses `lits <= high`: one per clear bit of high
LogHighClauses(lits, high, n_bits) ==
    LET is == SelectSeq([i \in 1..n_bits |-> i - 1], LAMBDA i : Bit(high, i) = 0) IN
    [k \in 1..Len(is) |->
        <<Neg(lits[is[k] + 1])>> \o [j \in 1..(n_bits - 1 - is[k]) |-> LogBitLit(lits, high, is[k] + j)]]

\* LogGapClauses with the holes of the domain left open
LogGapClauses_None(lits, domain, n_bits) == <<>>

\* clauses excluding every integer strictly between consecutive domain values
LogGapClauses(lits, domain, n_bits) ==
    Concat([i \in 1..(Len(domain) - 1) |->
              [k \in 1..(domain[i + 1] - domain[i] - 1) |->
                  [j \in 1..n_bits |-> LogBitLit(lits, domain[i] + k, j - 1)]]])

\* convert_int_var_log_encoding that allocates the literals of a Domain
\* variable before it looks at the lower bound
convert_int_var_log_encoding_AllocFirst(env, var) ==
    IF IntMapGet(env.map, var) # None THEN env
    ELSE LET repr == env.norm_vars.int_var[var] IN
         IF repr.kind = "Domain" THEN
            IF Len(repr.domain) = 0 THEN [env EXCEPT !.panic = TRUE] ELSE
            LET low == repr.domain[1]
                high == repr.domain[Len(repr.domain)]
                n_bits == BitLength(high)
                lits == NewLits(env.sat, n_bits)
            IN IF low < 0 THEN [env EXCEPT !.panic = TRUE, !.sat = SatAlloc(@, n_bits)]
               ELSE LET cls == LogLowClauses(lits, low, n_bits)
                                 \o LogHighClauses(lits, high, n_bits)
                                 \o LogGapClauses(lits, repr.domain, n_bits)
                    IN [env EXCEPT !.sat = SatAddClauses(SatAlloc(@, n_bits), cls),
                                   !.map.int_map =
                                       SeqSet(@, var, Some(EncodingLog(
                                           LogEncoding(lits, Range(low, high)))))]
         ELSE [env EXCEPT !.panic = TRUE]

convert_int_var_log_encoding(env, var) ==
    IF IntMapGet(env.map, var) # None THEN env
    ELSE LET repr == env.norm_vars.int_var[var] IN
         IF repr.kind = "Domain" THEN
            \* an empty domain has no bounds to read
            IF Len(repr.domain) = 0 THEN [env EXCEPT !.panic = TRUE] ELSE
            LET low == repr.domain[1]
                high == repr.domain[Len(repr.domain)]
            IN IF low < 0 THEN [env EXCEPT !.panic = TRUE]
               ELSE LET n_bits == BitLength(high)
                        lits == NewLits(env.sat, n_bits)
                        cls == LogLowClauses(lits, low, n_bits)
                                 \o LogHighClauses(lits, high, n_bits)
                                 \o LogGapClauses(lits, repr.domain, n_bits)
                    IN [env EXCEPT !.sat = SatAddClauses(SatAlloc(@, n_bits), cls),
                                   !.map.int_map =
                                       SeqSet(@, var, Some(EncodingLog(
                                           LogEncoding(lits, Range(low, high)))))]
         ELSE [env EXCEPT !.panic = TRUE]

----------------------------------------------------------------------------
(* Linear sums and literals *)

Term(var, coef) == [var |-> var, coef |-> coef]

LinearSumNew == [term |-> <<>>, constant |-> 0]

LinearSumConstant(c) == [term |-> <<>>, constant |-> c]

SelectTerms(ts, keep(_)) == SelectSeq(ts, keep)

\* LinearSum::add_coef: terms are kept in key order, a zero coefficient is dropped
add_coef(sum, var, coef) ==
    LET old == {k \in 1..Len(sum.term) : sum.term[k].var = var}
        c == IF old = {} THEN coef ELSE sum.term[CHOOSE k \in old : TRUE].coef + coef
        before == SelectSeq(sum.term, LAMBDA t : t.var < var)
        after == SelectSeq(sum.term, LAMBDA t : t.var > var)
    IN [sum EXCEPT !.term = IF c = 0 THEN before \o after
                             ELSE before \o <<Term(var, c)>> \o after]

\* sum * k
LinearSumMul(sum, k) ==
    IF k = 0 THEN LinearSumNew
    ELSE [term |-> [i \in 1..Len(sum.term) |-> Term(sum.term[i].var, sum.term[i].coef * k)],
          constant |-> sum.constant * k]

\* sum + k
LinearSumAdd(sum, k) == [sum EXCEPT !.constant = @ + k]

LinearLit(sum, op) == [sum |-> sum, op |-> op]

CmpOps == {"Eq", "Ne", "Le", "Lt", "Ge", "Gt"}

\* CmpOp::compare
Compare(op, a, b) ==
    CASE op = "Eq" -> a = b
      [] op = "Ne" -> a # b
      [] op = "Le" -> a <= b
      [] op = "Lt" -> a < b
      [] op = "Ge" -> a >= b
      [] op = "Gt" -> a > b

----------------------------------------------------------------------------
(* LinearInfoForOrderEncoding / LinearInfoForDirectEncoding *)

InfoOrder(coef, enc) == [kind |-> "Order", coef |-> coef, encoding |-> enc]

InfoDirect(coef, enc) == [kind |-> "Direct", coef |-> coef, encoding |-> enc]

domain_size(info) == Len(info.encoding.domain)

\* j-th smallest (j from 0) domain value after normalizing negative coefficients
InfoDomain(info, j) ==
    IF info.coef > 0 THEN info.encoding.domain[j + 1] * info.coef
    ELSE info.encoding.domain[Len(info.encoding.domain) - j] * info.coef

domain_min(info) == InfoDomain(info, 0)

domain_max(info) == InfoDomain(info, domain_size(info) - 1)

\* at_least without the re-indexing of a negative coefficient
at_least_NoReverse(info, j) ==
    IF info.coef > 0 THEN info.encoding.lits[j] ELSE Neg(info.encoding.lits[j])

\* the literal asserting that the value is at least domain(j), 0 < j < domain size
at_least(info, j) ==
    IF info.coef > 0 THEN info.encoding.lits[j]
    ELSE Neg(info.encoding.lits[Len(info.encoding.domain) - j])

ExtTrue == [tag |-> "True", lit |-> 0]

ExtFalse == [tag |-> "False", lit |-> 0]

ExtLit(l) == [tag |-> "Lit", lit |-> l]

RECURSIVE LowerBoundSearch(_, _, _, _)
LowerBoundSearch(info, val, left, right) ==
    IF left < right
    THEN LET mid == (left + right) \div 2 IN
         IF val <= InfoDomain(info, mid) THEN LowerBoundSearch(info, val, left, mid)
         ELSE LowerBoundSearch(info, val, mid + 1, right)
    ELSE left

\* at_least_val that gives False at the greatest value as well
at_least_val_FalseAtMax(info, val) ==
    LET dom_size == domain_size(info) IN
    IF val <= InfoDomain(info, 0) THEN ExtTrue
    ELSE IF val >= InfoDomain(info, dom_size - 1) THEN ExtFalse
    ELSE ExtLit(at_least(info, LowerBoundSearch(info, val, 0, dom_size - 1)))

at_least_val(info, val) ==
    LET dom_size == domain_size(info) IN
    IF val <= InfoDomain(info, 0) THEN ExtTrue
    ELSE IF val > InfoDomain(info, dom_size - 1) THEN ExtFalse
    ELSE ExtLit(at_least(info, LowerBoundSearch(info, val, 0, dom_size - 1)))

\* equals without the re-indexing of a negative coefficient
equals_NoReverse(info, j) == info.encoding.lits[j + 1]

\* the literal asserting that the value equals domain(j)
equals(info, j) ==
    IF info.coef > 0 THEN info.encoding.lits[j + 1]
    ELSE info.encoding.lits[domain_size(info) - j]

equals_val(info, val) ==
    LET left == LowerBoundSearch(info, val, 0, domain_size(info) - 1) IN
    IF InfoDomain(info, left) = val THEN Some(equals(info, left)) ELSE None

----------------------------------------------------------------------------
(* Mixed Ge: encode_linear_ge_mixed *)

\* encode_sub only appends to clauses_buf: a call is modelled by the sequence of
\* the clauses it pushes, in order
RECURSIVE GeEncodeSub(_, _, _, _, _)

\* iteration i of the `for i in 0..(domain_size - 1)` loop of the term at idx
GeBranch(info, clause, idx, upper_bound, min_relax_on_erasure, i) ==
    GeEncodeSub(info,
                Append(clause, IF info[idx + 1].kind = "Order"
                               THEN at_least(info[idx + 1], i + 1)
                               ELSE Neg(equals(info[idx + 1], i))),
                idx + 1,
                upper_bound - domain_max(info[idx + 1]) + InfoDomain(info[idx + 1], i),
                IF info[idx + 1].kind = "Order" THEN None
                ELSE Some(Min2(IF min_relax_on_erasure = None THEN CheckedIntMax
                               ELSE min_relax_on_erasure[1],
                               domain_max(info[idx + 1]) - InfoDomain(info[idx + 1], i))))

\* the last term is order-encoded: its tightest at_least literal
GeLastOrder(e, clause, upper_bound) ==
    LET x == at_least_val(e, -(upper_bound - domain_max(e))) IN
    CASE x.tag = "True" -> <<>>
      [] x.tag = "False" -> <<PanicClause>>
      [] x.tag = "Lit" -> <<Append(clause, x.lit)>>

\* GeEncodeSub with every cut node that carries a relaxation left out
GeEncodeSub_PruneRelaxed(info, clause, idx, upper_bound, min_relax_on_erasure) ==
    CASE upper_bound < 0 ->
           IF min_relax_on_erasure # None THEN <<>> ELSE <<clause>>
      [] upper_bound >= 0 /\ idx = Len(info) -> <<>>
      [] upper_bound >= 0 /\ idx + 1 = Len(info) /\ info[Len(info)].kind = "Order" ->
           GeLastOrder(info[idx + 1], clause, upper_bound)
      [] OTHER ->
           Concat([k \in 1..(domain_size(info[idx + 1]) - 1) |->
                      GeBranch(info, clause, idx, upper_bound, min_relax_on_erasure, k - 1)])
             \o GeEncodeSub(info, clause, idx + 1, upper_bound, min_relax_on_erasure)

GeEncodeSub(info, clause, idx, upper_bound, min_relax_on_erasure) ==
    CASE upper_bound < 0 ->
           IF min_relax_on_erasure # None /\ upper_bound + min_relax_on_erasure[1] < 0
           THEN <<>>
           ELSE <<clause>>
      [] upper_bound >= 0 /\ idx = Len(info) -> <<>>
      [] upper_bound >= 0 /\ idx + 1 = Len(info) /\ info[Len(info)].kind = "Order" ->
           GeLastOrder(info[idx + 1], clause, upper_bound)
      [] OTHER ->
           Concat([k \in 1..(domain_size(info[idx + 1]) - 1) |->
                      GeBranch(info, clause, idx, upper_bound, min_relax_on_erasure, k - 1)])
             \o GeEncodeSub(info, clause, idx + 1, upper_bound, min_relax_on_erasure)

encode_linear_ge_mixed_from_info(info, constant) ==
    LET upper_bound == constant + SumSeq([i \in 1..Len(info) |-> domain_max(info[i])])
    IN ClauseSetPushed(GeEncodeSub(info, <<>>, 0, upper_bound, None))

\* the info vector of a sum; order encoding is preferred
GeMixedInfo(mp, sum) ==
    Strict([i \in 1..Len(sum.term) |->
        LET encoding == mp.int_map[sum.term[i].var][1] IN
        IF encoding.order_encoding # None
        THEN InfoOrder(sum.term[i].coef, encoding.order_encoding[1])
        ELSE InfoDirect(sum.term[i].coef, encoding.direct_encoding[1])])

encode_linear_ge_mixed(env, sum) ==
    encode_linear_ge_mixed_from_info(GeMixedInfo(env.map, sum), sum.constant)

----------------------------------------------------------------------------
(* Direct-simple: encode_simple_linear_direct_encoding *)

\* encode_simple_linear_direct_encoding with the constant of the sum left out
encode_simple_linear_direct_encoding_NoConstant(env, lit) ==
    LET encoding == env.map.int_map[lit.sum.term[1].var][1].direct_encoding[1]
        passes(i) == Compare(lit.op, encoding.domain[i] * lit.sum.term[1].coef, 0)
        idx == [i \in 1..Len(encoding.domain) |-> i]
        oks == SelectSeq(idx, LAMBDA i : passes(i))
        ngs == SelectSeq(idx, LAMBDA i : ~passes(i))
    IN IF Len(oks) = Len(encoding.domain) THEN None
       ELSE IF Len(ngs) = 1 THEN Some([k \in 1..1 |-> Neg(encoding.lits[ngs[k]])])
       ELSE Some([k \in 1..Len(oks) |-> encoding.lits[oks[k]]])

\* Option<Vec<Lit>>: None when the literal always holds
encode_simple_linear_direct_encoding(env, lit) ==
    LET op == lit.op
        var == lit.sum.term[1].var
        coef == lit.sum.term[1].coef
        encoding == env.map.int_map[var][1].direct_encoding[1]
        passes(i) == Compare(op, encoding.domain[i] * coef + lit.sum.constant, 0)
        idx == [i \in 1..Len(encoding.domain) |-> i]
        okIdx == SelectSeq(idx, LAMBDA i : passes(i))
        ngIdx == SelectSeq(idx, LAMBDA i : ~passes(i))
        oks == [k \in 1..Len(okIdx) |-> encoding.lits[okIdx[k]]]
        ngs == [k \in 1..Len(ngIdx) |-> Neg(encoding.lits[ngIdx[k]])]
    IN IF Len(oks) = Len(encoding.domain) THEN None
       ELSE IF Len(ngs) = 1 THEN Some(ngs)
       ELSE Some(oks)

----------------------------------------------------------------------------
(* Direct Eq: encode_linear_eq_direct *)

DirectInfo(mp, sum) ==
    Strict([i \in 1..Len(sum.term) |->
        InfoDirect(sum.term[i].coef, mp.int_map[sum.term[i].var][1].direct_encoding[1])])

\* stable sort of the info vector by the number of literals
RECURSIVE SortByLitsLen(_)
SortByLitsLen(info) ==
    IF Len(info) = 0 THEN <<>>
    ELSE LET front == SortByLitsLen(SubSeq(info, 1, Len(info) - 1))
             x == info[Len(info)]
             k == Cardinality({j \in 1..Len(front) :
                                 Len(front[j].encoding.lits) <= Len(x.encoding.lits)})
         IN SubSeq(front, 1, k) \o <<x>> \o SubSeq(front, k + 1, Len(front))

encode_linear_eq_direct_two_terms(info, constant) ==
    LET clauseOf(u, i) ==
            LET v == 3 - u IN
            <<Neg(equals(info[u], i))>> \o
                equals_val(info[v], -constant - InfoDomain(info[u], i))
        clausesOf(u) == [i \in 1..domain_size(info[u]) |-> clauseOf(u, i - 1)]
    IN ClauseSetFromSeq(clausesOf(1) \o clausesOf(2))

\* the value of `cannot_prune` when the clause of a bound-violating node is about to be pushed
EqCannotPrune(lower_bound, upper_bound, min_relax_for_lb, min_relax_for_ub) ==
    LET c0 == TRUE
        c1 == IF lower_bound > 0
                 /\ (IF min_relax_for_lb = None THEN TRUE
                     ELSE lower_bound - min_relax_for_lb[1] <= 0)
              THEN TRUE ELSE c0
        c2 == IF upper_bound < 0
                 /\ (IF min_relax_for_ub = None THEN TRUE
                     ELSE upper_bound + min_relax_for_ub[1] >= 0)
              THEN TRUE ELSE c1
    IN c2

\* as for the mixed encoder, a call of encode_sub is the sequence of its pushes
RECURSIVE EqEncodeSub(_, _, _, _, _, _, _)

\* iteration i of the `for i in 0..domain_size` loop of the term at idx
EqBranch(info, clause, idx, lower_bound, upper_bound, min_relax_for_lb, min_relax_for_ub, i) ==
    LET e == info[idx + 1]
        lb_for_this_term == domain_min(e)
        ub_for_this_term == domain_max(e)
        value == InfoDomain(e, i)
        next_lb == lower_bound - lb_for_this_term + value
        next_ub == upper_bound - ub_for_this_term + value
        next_min_relax_for_lb ==
            Some(Min2(IF min_relax_for_lb = None THEN CheckedIntMax
                      ELSE min_relax_for_lb[1], value - lb_for_this_term))
        next_min_relax_for_ub ==
            Some(Min2(IF min_relax_for_ub = None THEN CheckedIntMax
                      ELSE min_relax_for_ub[1], ub_for_this_term - value))
    IN EqEncodeSub(info, Append(clause, Neg(equals(e, i))), idx + 1,
                   next_lb, next_ub, next_min_relax_for_lb, next_min_relax_for_ub)

\* the last term: the clause extended with the values the bounds still allow
EqLast(e, clause, lower_bound, upper_bound) ==
    LET prev_lb == lower_bound - domain_min(e)
        prev_ub == upper_bound - domain_max(e)
        idxs == [i \in 1..domain_size(e) |-> i - 1]
        cand == SelectSeq(idxs, LAMBDA i :
                    ~(prev_ub + InfoDomain(e, i) < 0 \/ 0 < prev_lb + InfoDomain(e, i)))
        possible_cand == [k \in 1..Len(cand) |-> equals(e, cand[k])]
    IN IF Len(possible_cand) = domain_size(e) THEN <<>>
       ELSE <<clause \o possible_cand>>

EqEncodeSub(info, clause, idx, lower_bound, upper_bound, min_relax_for_lb, min_relax_for_ub) ==
    CASE lower_bound > 0 \/ upper_bound < 0 ->
           IF EqCannotPrune(lower_bound, upper_bound, min_relax_for_lb, min_relax_for_ub)
           THEN <<clause>>
           ELSE <<>>
      [] ~(lower_bound > 0 \/ upper_bound < 0) /\ idx = Len(info) -> <<>>
      [] ~(lower_bound > 0 \/ upper_bound < 0) /\ idx = Len(info) - 1 ->
           EqLast(info[idx + 1], clause, lower_bound, upper_bound)
      [] OTHER ->
           Concat([k \in 1..domain_size(info[idx + 1]) |->
                      EqBranch(info, clause, idx, lower_bound, upper_bound,
                               min_relax_for_lb, min_relax_for_ub, k - 1)])
             \o EqEncodeSub(info, clause, idx + 1, lower_bound, upper_bound,
                            min_relax_for_lb, min_relax_for_ub)

encode_linear_eq_direct(env, sum) ==
    LET info == SortByLitsLen(DirectInfo(env.map, sum)) IN
    IF Len(info) = 2 THEN encode_linear_eq_direct_two_terms(info, sum.constant)
    ELSE LET lower_bound == sum.constant + SumSeq([i \in 1..Len(info) |-> domain_min(info[i])])
             upper_bound == sum.constant + SumSeq([i \in 1..Len(info) |-> domain_max(info[i])])
         IN ClauseSetPushed(EqEncodeSub(info, <<>>, 0, lower_bound, upper_bound, None, None))

----------------------------------------------------------------------------
(* Direct Ne: encode_linear_ne_direct *)

RECURSIVE NeEncodeSub(_, _, _, _, _)

\* NeBranch with the chosen value asserted instead of excluded
NeBranch_NotNegated(info, clause, idx, lower_bound, upper_bound, i) ==
    LET e == info[idx + 1]
        value == InfoDomain(e, i)
        next_lb == lower_bound - domain_min(e) + value
        next_ub == upper_bound - domain_max(e) + value
    IN NeEncodeSub(info, Append(clause, equals(e, i)), idx + 1, next_lb, next_ub)

\* iteration i of the `for i in 0..domain_size` loop of the term at idx
NeBranch(info, clause, idx, lower_bound, upper_bound, i) ==
    LET e == info[idx + 1]
        value == InfoDomain(e, i)
        next_lb == lower_bound - domain_min(e) + value
        next_ub == upper_bound - domain_max(e) + value
    IN NeEncodeSub(info, Append(clause, Neg(equals(e, i))), idx + 1, next_lb, next_ub)

\* the last term: the value that makes the sum zero is forbidden
NeLast(e, clause, lower_bound, upper_bound) ==
    LET prev_val == lower_bound - domain_min(e)
        hits == {i \in 0..(domain_size(e) - 1) : prev_val + InfoDomain(e, i) = 0}
    IN IF lower_bound - domain_min(e) # upper_bound - domain_max(e) THEN <<PanicClause>>
       ELSE IF Cardinality(hits) > 1 THEN <<PanicClause>>
       ELSE IF hits = {} THEN <<>>
       ELSE <<Append(clause, Neg(equals(e, CHOOSE i \in hits : TRUE)))>>

NeEncodeSub(info, clause, idx, lower_bound, upper_bound) ==
    CASE lower_bound > 0 \/ upper_bound < 0 -> <<>>
      [] ~(lower_bound > 0 \/ upper_bound < 0) /\ idx = Len(info) ->
           IF lower_bound # upper_bound THEN <<PanicClause>>
           ELSE IF lower_bound = 0 THEN <<clause>>
           ELSE <<>>
      [] ~(lower_bound > 0 \/ upper_bound < 0) /\ idx = Len(info) - 1 ->
           NeLast(info[idx + 1], clause, lower_bound, upper_bound)
      [] OTHER ->
           Concat([k \in 1..domain_size(info[idx + 1]) |->
                      NeBranch(info, clause, idx, lower_bound, upper_bound, k - 1)])

encode_linear_ne_direct(env, sum) ==
    LET info == DirectInfo(env.map, sum)
        lower_bound == sum.constant + SumSeq([i \in 1..Len(info) |-> domain_min(info[i])])
        upper_bound == sum.constant + SumSeq([i \in 1..Len(info) |-> domain_max(info[i])])
    IN ClauseSetPushed(NeEncodeSub(info, <<>>, 0, lower_bound, upper_bound))

----------------------------------------------------------------------------
(* Log linear: log_encoding_adder, encode_linear_log *)

\* Bind(v, F) is F(v): v is computed once and named by F's parameter
Bind(v, F(_)) == F(v)

\* `for (ofs, value) in values`: grow the columns and drop each bit in its column
RECURSIVE AdderPlaceValues(_, _, _)
AdderPlaceValues(pos_vars, pos_constant, values) ==
    IF Len(values) = 0 THEN [pos_vars |-> pos_vars, pos_constant |-> pos_constant]
    ELSE LET ofs == values[1][1]
             value == values[1][2]
             n == Max2(Len(pos_vars), ofs + Len(value))
             pv == [p \in 1..n |->
                      (IF p <= Len(pos_vars) THEN pos_vars[p] ELSE <<>>)
                        \o (IF p - 1 >= ofs /\ p - 1 < ofs + Len(value)
                            THEN <<value[p - ofs]>> ELSE <<>>)]
             pc == [p \in 1..n |-> IF p <= Len(pos_constant) THEN pos_constant[p] ELSE 0]
         IN AdderPlaceValues(Strict(pv), Strict(pc), Tail(values))

\* carry propagation over the constant column by column, from column i on
RECURSIVE AdderNormalizeConstant(_, _, _)
AdderNormalizeConstant(pos_vars, pos_constant, i) ==
    IF i >= Len(pos_constant) THEN [pos_vars |-> pos_vars, pos_constant |-> pos_constant]
    ELSE LET c == pos_constant[i + 1]
             grown == c >= 2 /\ i + 1 = Len(pos_constant)
             pv == IF grown THEN Append(pos_vars, <<>>) ELSE pos_vars
             pc1 == IF c >= 2
                    THEN IF grown THEN Append(pos_constant, c \div 2)
                         ELSE [pos_constant EXCEPT ![i + 2] = @ + c \div 2]
                    ELSE pos_constant
             pc2 == [pc1 EXCEPT ![i + 1] = c % 2]
         IN AdderNormalizeConstant(pv, pc2, i + 1)

BitOrderEncoding(lit) == OrderEncoding(<<0, 1>>, <<lit>>)

NegateInfos(infos) == Strict([k \in 1..Len(infos) |-> [infos[k] EXCEPT !.coef = @ * (-1)]])

\* the main loop of the adder; st holds its mutable locals and the SAT variable count
RECURSIVE AdderLoop(_)
AdderLoop(st) ==
    IF st.i >= Len(st.pos_vars) THEN st
    ELSE LET col == st.pos_vars[st.i + 1]
             k == st.pos_constant[st.i + 1]
             cnt == k + Len(col) + Len(st.carry)
             carry_encoding == OrderEncoding(Strict([j \in 1..(Len(st.carry) + 1) |-> j - 1]), st.carry)
             carry_next == Strict([j \in 1..(cnt \div 2) |-> st.nvars + j])
             nvars1 == st.nvars + cnt \div 2
             carry_next_encoding == OrderEncoding(Strict([j \in 1..(cnt \div 2 + 1) |-> j - 1]), carry_next)
             n_new == IF st.i >= Len(st.result) THEN st.i + 1 - Len(st.result) ELSE 0
             result == st.result \o [j \in 1..n_new |-> nvars1 + j]
             nvars2 == nvars1 + n_new
             ret_encoding == BitOrderEncoding(result[st.i + 1])
             infos == [j \in 1..Len(col) |-> InfoOrder(1, BitOrderEncoding(col[j]))]
                        \o <<InfoOrder(1, carry_encoding),
                             InfoOrder(-2, carry_next_encoding),
                             InfoOrder(-1, ret_encoding)>>
             c1 == encode_linear_ge_mixed_from_info(infos, k)
             c2 == encode_linear_ge_mixed_from_info(NegateInfos(infos), -k)
             grow == Len(carry_next) # 0 /\ st.i + 1 = Len(st.pos_vars)
         IN AdderLoop([i |-> st.i + 1,
                       carry |-> carry_next,
                       pos_vars |-> IF grow THEN Append(st.pos_vars, <<>>) ELSE st.pos_vars,
                       pos_constant |-> IF grow THEN Append(st.pos_constant, 0) ELSE st.pos_constant,
                       result |-> result,
                       clause_set |-> ClauseSetAppend(ClauseSetAppend(st.clause_set, c1), c2),
                       nvars |-> nvars2])

\* log_encoding_adder that allocates one more variable than it constrains
log_encoding_adder_SpareVar(env, values, constant, result) ==
    LET placed == AdderPlaceValues([k \in 1..Len(constant) |-> <<>>], constant, values)
        norm == AdderNormalizeConstant(placed.pos_vars, placed.pos_constant, 0)
        st == AdderLoop([i |-> 0, carry |-> <<>>,
                         pos_vars |-> norm.pos_vars, pos_constant |-> norm.pos_constant,
                         result |-> result, clause_set |-> ClauseSetNew,
                         nvars |-> env.sat.nvars])
    IN [env |-> [env EXCEPT !.sat.nvars = st.nvars + 1],
        clause_set |-> st.clause_set,
        result |-> st.result]

\* [env, clause_set, result]
log_encoding_adder(env, values, constant, result) ==
    LET placed == AdderPlaceValues([k \in 1..Len(constant) |-> <<>>], constant, values)
        norm == AdderNormalizeConstant(placed.pos_vars, placed.pos_constant, 0)
        st == AdderLoop([i |-> 0, carry |-> <<>>,
                         pos_vars |-> norm.pos_vars, pos_constant |-> norm.pos_constant,
                         result |-> result, clause_set |-> ClauseSetNew,
                         nvars |-> env.sat.nvars])
    IN [env |-> [env EXCEPT !.sat.nvars = st.nvars],
        clause_set |-> st.clause_set,
        result |-> st.result]

\* the (bit offset, literal vector) entries of a coefficient magnitude: one per set bit
RECURSIVE CoefEntries(_, _, _)
CoefEntries(coef, i, lits) ==
    LET here == IF coef % 2 = 1 THEN << <<i, lits>> >> ELSE <<>> IN
    IF coef \div 2 = 0 THEN here ELSE here \o CoefEntries(coef \div 2, i + 1, lits)

LogValues(mp, sum, positive) ==
    Concat([k \in 1..Len(sum.term) |->
        LET coef == sum.term[k].coef
            lits == mp.int_map[sum.term[k].var][1].log_encoding[1].lits
        IN IF positive THEN (IF coef > 0 THEN CoefEntries(coef, 0, lits) ELSE <<>>)
           ELSE (IF coef > 0 THEN <<>> ELSE CoefEntries(-coef, 0, lits))])

\* LogEqClauses restricted to the bits both sides have
LogEqClauses_NoSurplus(P, N) ==
    Concat([k \in 1..Min2(Len(P), Len(N)) |->
        << <<P[k], Neg(N[k])>>, <<Neg(P[k]), N[k]>> >>])

\* op Eq: bitwise equality, a surplus bit of either side is false
LogEqClauses(P, N) ==
    Concat([k \in 1..Max2(Len(P), Len(N)) |->
        IF k > Len(P) THEN << <<Neg(N[k])>> >>
        ELSE IF k > Len(N) THEN << <<Neg(P[k])>> >>
        ELSE << <<P[k], Neg(N[k])>>, <<Neg(P[k]), N[k]>> >>])

\* op Ne: aux_i <=> (P_i xor N_i) on the common bits; some difference bit is true
LogNeClauses(P, N, nvars) ==
    LET common == Min2(Len(P), Len(N))
        aux(k) == nvars + k
    IN Concat([k \in 1..common |->
                 << <<Neg(aux(k)), P[k], N[k]>>, <<Neg(aux(k)), Neg(P[k]), Neg(N[k])>>,
                    <<aux(k), P[k], Neg(N[k])>>, <<aux(k), Neg(P[k]), N[k]>> >>])
       \o << [k \in 1..Max2(Len(P), Len(N)) |->
                IF k > Len(P) THEN N[k] ELSE IF k > Len(N) THEN P[k] ELSE aux(k)] >>

\* op Ge: the chain sub_next_i over the common bits, then the surplus bits
LogGeClauses(P, N, nvars) ==
    LET common == Min2(Len(P), Len(N))
        sub(k) == nvars + k
        chain == Concat([k \in 1..common |->
            IF k > 1
            THEN << <<Neg(sub(k)), Neg(N[k]), sub(k - 1)>>,
                    <<Neg(sub(k)), P[k], Neg(N[k])>>,
                    <<Neg(sub(k)), P[k], sub(k - 1)>>,
                    <<Neg(P[k]), N[k], sub(k)>>,
                    <<Neg(P[k]), Neg(N[k]), Neg(sub(k - 1)), sub(k)>>,
                    <<P[k], N[k], Neg(sub(k - 1)), sub(k)>> >>
            ELSE << <<Neg(sub(k)), P[k], Neg(N[k])>>,
                    <<Neg(P[k]), sub(k)>>,
                    <<N[k], sub(k)>> >>])
        last == IF common > 0 THEN <<sub(common)>> ELSE <<>>
    IN chain \o
       (IF Len(P) <= Len(N)
        THEN [k \in 1..Len(last) |-> <<last[k]>>]
               \o [k \in 1..(Len(N) - Len(P)) |-> <<Neg(N[Len(P) + k])>>]
        ELSE << last \o [k \in 1..(Len(P) - Len(N)) |-> P[Len(N) + k]] >>)

\* the comparison of the two accumulated sides a1 (positive) and a2 (negative)
LogCompare(a1, a2, op) ==
    LET P == a1.result
        N == a2.result
        nvars == a2.env.sat.nvars
        common == Min2(Len(P), Len(N))
    IN CASE op = "Eq" ->
              [env |-> a2.env,
               clause_set |-> ClauseSetAppend(ClauseSetAppend(a1.clause_set, a2.clause_set),
                                              ClauseSetFromSeq(LogEqClauses(P, N)))]
         [] op = "Ne" ->
              [env |-> [a2.env EXCEPT !.sat.nvars = @ + common],
               clause_set |-> ClauseSetAppend(ClauseSetAppend(a1.clause_set, a2.clause_set),
                                              ClauseSetFromSeq(LogNeClauses(P, N, nvars)))]
         [] op = "Ge" ->
              [env |-> [a2.env EXCEPT !.sat.nvars = @ + common],
               clause_set |-> ClauseSetAppend(ClauseSetAppend(a1.clause_set, a2.clause_set),
                                              ClauseSetFromSeq(LogGeClauses(P, N, nvars)))]
         [] OTHER -> [env |-> [a2.env EXCEPT !.panic = TRUE], clause_set |-> Panicked]

\* [env, clause_set]
encode_linear_log(env, sum, op) ==
    Bind(log_encoding_adder(env, LogValues(env.map, sum, TRUE),
                            <<Max2(sum.constant, 0)>>, <<>>),
         LAMBDA a1 :
           LogCompare(a1,
                      log_encoding_adder(a1.env, LogValues(env.map, sum, FALSE),
                                         <<Max2(-sum.constant, 0)>>, <<>>),
                      op))

----------------------------------------------------------------------------
(* Multiplication: encode_mul_log, log_encoding_multiplier *)

\* [env, clause_set, result]
log_encoding_multiplier(env, value1, value2, result) ==
    LET n1 == Len(value1)
        n2 == Len(value2)
        m(i, j) == env.sat.nvars + (i - 1) * n2 + j
        cls == Concat([i \in 1..n1 |-> Concat([j \in 1..n2 |->
                   << <<Neg(m(i, j)), value1[i]>>,
                      <<Neg(m(i, j)), value2[j]>>,
                      <<Neg(value1[i]), Neg(value2[j]), m(i, j)>> >>])])
        sum_values == [i \in 1..n1 |-> <<i - 1, [j \in 1..n2 |-> m(i, j)]>>]
    IN Bind(log_encoding_adder([env EXCEPT !.sat.nvars = @ + n1 * n2], sum_values, <<>>, result),
            LAMBDA a : [env |-> a.env,
                        clause_set |-> ClauseSetAppend(ClauseSetFromSeq(cls), a.clause_set),
                        result |-> a.result])

\* [env, clause_set]
encode_mul_log(env, x, y, m) ==
    LET x_repr == env.map.int_map[x][1].log_encoding[1].lits
        y_repr == env.map.int_map[y][1].log_encoding[1].lits
        m_repr == env.map.int_map[m][1].log_encoding[1].lits
        surplus(result) ==
            [k \in 1..(Len(result) - Len(m_repr)) |-> <<Neg(result[Len(m_repr) + k])>>]
    IN Bind(log_encoding_multiplier(env, x_repr, y_repr, m_repr),
            LAMBDA r : [env |-> r.env,
                        clause_set |-> ClauseSetAppend(r.clause_set,
                                                       ClauseSetFromSeq(surplus(r.result)))])

----------------------------------------------------------------------------
(* Ranges and domains of linear sums *)

RangeConstant(c) == Range(c, c)

RangeAdd(a, b) == Range(a.low + b.low, a.high + b.high)

\* multiplication by a negative value swaps the endpoints
RangeMul(a, k) ==
    IF k >= 0 THEN Range(a.low * k, a.high * k) ELSE Range(a.high * k, a.low * k)

\* the set of the values of a linear sum over the variables' representations
RECURSIVE SumValueSet(_, _, _)
SumValueSet(nv, sum, k) ==
    IF k = 0 THEN {sum.constant}
    ELSE {a + sum.term[k].coef * x :
             a \in SumValueSet(nv, sum, k - 1), x \in ReprValues(nv.int_var[sum.term[k].var])}

\* the ascending enumeration of a finite set of integers
RECURSIVE SortedSeq(_)
SortedSeq(S) ==
    IF S = {} THEN <<>>
    ELSE LET x == CHOOSE y \in S : \A z \in S : y <= z IN <<x>> \o SortedSeq(S \ {x})

\* NormCSPVars::get_domain_linear_sum
get_domain_linear_sum(nv, sum) == SortedSeq(SumValueSet(nv, sum, Len(sum.term)))

\* Domain::refine_upper_bound
refine_upper_bound(domain, ub) == SelectSeq(domain, LAMBDA x : x <= ub)

\* Domain::refine_lower_bound
refine_lower_bound(domain, lb) == SelectSeq(domain, LAMBDA x : x >= lb)

\* Domain * -1
DomainNegate(domain) == [k \in 1..Len(domain) |-> -domain[Len(domain) + 1 - k]]

----------------------------------------------------------------------------
(* is_unsatisfiable_linear, suggest_encoder *)

\* the range of the sum: the constant, then `range + var_range * coef` per term
RECURSIVE LinearSumRange(_, _, _)
LinearSumRange(mp, sum, k) ==
    IF k = 0 THEN RangeConstant(sum.constant)
    ELSE RangeAdd(LinearSumRange(mp, sum, k - 1),
                  RangeMul(EncodingRange(mp.int_map[sum.term[k].var][1]), sum.term[k].coef))

\* is_unsatisfiable_linear that drops no literal
is_unsatisfiable_linear_Never(env, linear_lit) == FALSE

\* is_unsatisfiable_linear with the strict test for Gt and Lt
is_unsatisfiable_linear_Strict(env, linear_lit) ==
    LET range == LinearSumRange(env.map, linear_lit.sum, Len(linear_lit.sum.term)) IN
    CASE linear_lit.op = "Eq" -> range.low > 0 \/ range.high < 0
      [] linear_lit.op = "Ne" -> range.low = 0 /\ range.high = 0
      [] linear_lit.op = "Le" -> range.low > 0
      [] linear_lit.op = "Lt" -> range.low > 0
      [] linear_lit.op = "Ge" -> range.high < 0
      [] linear_lit.op = "Gt" -> range.high < 0

is_unsatisfiable_linear(env, linear_lit) ==
    LET range == LinearSumRange(env.map, linear_lit.sum, Len(linear_lit.sum.term)) IN
    CASE linear_lit.op = "Eq" -> range.low > 0 \/ range.high < 0
      [] linear_lit.op = "Ne" -> range.low = 0 /\ range.high = 0
      [] linear_lit.op = "Le" -> range.low > 0
      [] linear_lit.op = "Lt" -> range.low >= 0
      [] linear_lit.op = "Ge" -> range.high < 0
      [] linear_lit.op = "Gt" -> range.high <= 0

\* suggest_encoder with the test for DirectEqNe made before the one for DirectSimple
suggest_encoder_EqNeFirst(env, linear_lit) ==
    LET term == linear_lit.sum.term
        enc(i) == env.map.int_map[term[i].var][1]
    IN IF linear_lit.op \in {"Eq", "Ne"} /\ \A i \in 1..Len(term) : is_direct_encoding(enc(i))
       THEN "DirectEqNe"
       ELSE IF Len(term) = 1 /\ is_direct_encoding(enc(1)) THEN "DirectSimple"
       ELSE IF \A i \in 1..Len(term) : is_direct_or_order_encoding(enc(i)) THEN "MixedGe"
       ELSE IF \A i \in 1..Len(term) : enc(i).log_encoding # None THEN "Log"
       ELSE "panic"

\* EncoderKind, or "panic" when no encoder is applicable
suggest_encoder(env, linear_lit) ==
    LET term == linear_lit.sum.term
        enc(i) == env.map.int_map[term[i].var][1]
    IN IF Len(term) = 1 /\ is_direct_encoding(enc(1)) THEN "DirectSimple"
       ELSE IF linear_lit.op \in {"Eq", "Ne"} /\ \A i \in 1..Len(term) : is_direct_encoding(enc(i))
       THEN "DirectEqNe"
       ELSE IF \A i \in 1..Len(term) : is_direct_or_order_encoding(enc(i)) THEN "MixedGe"
       ELSE IF \A i \in 1..Len(term) : enc(i).log_encoding # None THEN "Log"
       ELSE "panic"

----------------------------------------------------------------------------
(* Linear decomposer: decompose_linear_lit, decompose_linear_lit_log *)

\* the order of the tuples (dom_size, var, coef) of the heap
HeapLess(a, b) ==
    \/ a[1] < b[1]
    \/ a[1] = b[1] /\ a[2] < b[2]
    \/ a[1] = b[1] /\ a[2] = b[2] /\ a[3] < b[3]

\* heap.peek() of the min-heap
HeapPeek(heap) == CHOOSE t \in heap : \A u \in heap : u = t \/ HeapLess(t, u)

\* a sum without constant built by add_coef from (var, coef) entries
RECURSIVE SumOfEntries(_, _)
SumOfEntries(entries, k) ==
    IF k = 0 THEN LinearSumNew
    ELSE add_coef(SumOfEntries(entries, k - 1), entries[k][1], entries[k][2])

\* the (var, coef) entries of the tuples of a heap
HeapEntries(heap) ==
    LET RECURSIVE drain(_)
        drain(h) == IF h = {} THEN <<>>
                    ELSE <<<<HeapPeek(h)[2], HeapPeek(h)[3]>>>> \o drain(h \ {HeapPeek(h)})
    IN drain(heap)

PendingEntries(pending) == [k \in 1..Len(pending) |-> <<pending[k][2], pending[k][3]>>]

\* the auxiliary domain: the domain of aux_sum tightened by the rest of the literal
AuxDomain(nv, aux_sum, rem_sum, constant) ==
    LET aux_dom == get_domain_linear_sum(nv, aux_sum)
        rem_dom == get_domain_linear_sum(nv, rem_sum)
    IN refine_lower_bound(refine_upper_bound(aux_dom, -(constant + rem_dom[1])),
                          -(constant + rem_dom[Len(rem_dom)]))

\* the `while let Some(top) = heap.peek()` loop; st is [env, heap, pending, dom_product, ret]
RECURSIVE DecomposeLoop(_, _)
DecomposeLoop(st, lit) ==
    IF st.heap = {} \/ st.env.panic THEN st
    ELSE LET top == HeapPeek(st.heap) IN
         IF /\ st.dom_product * top[1] >= st.env.config.domain_product_threshold
            /\ Len(st.pending) >= 2
            /\ Cardinality(st.heap) >= 2
         THEN LET aux_sum == SumOfEntries(PendingEntries(st.pending), Len(st.pending))
                  rem_sum == SumOfEntries(HeapEntries(st.heap), Cardinality(st.heap))
                  aux_dom == AuxDomain(st.env.norm_vars, aux_sum, rem_sum, lit.sum.constant)
                  nv == NewIntVar(st.env.norm_vars, DomainRepr(aux_dom))
                  aux_var == Len(nv.int_var)
                  env == convert_int_var_order_encoding([st.env EXCEPT !.norm_vars = nv], aux_var)
              IN DecomposeLoop(
                    [env |-> env,
                     heap |-> st.heap \cup {<<Len(aux_dom), aux_var, 1>>},
                     pending |-> <<>>,
                     dom_product |-> 1,
                     ret |-> Append(st.ret, LinearLit(add_coef(aux_sum, aux_var, -1),
                                                      IF lit.op = "Ge" THEN "Ge" ELSE "Eq"))],
                    lit)
         ELSE DecomposeLoop([st EXCEPT !.dom_product = @ * top[1],
                                       !.pending = Append(@, top),
                                       !.heap = @ \ {top}], lit)

\* [env, lits]
decompose_linear_lit(env, lit) ==
    IF env.panic THEN [env |-> env, lits |-> <<>>]
    ELSE IF lit.op \notin {"Ge", "Eq", "Ne"}
            \/ \E i \in 1..Len(lit.sum.term) :
                  ~is_direct_or_order_encoding(env.map.int_map[lit.sum.term[i].var][1])
    THEN [env |-> [env EXCEPT !.panic = TRUE], lits |-> <<>>]
    ELSE LET heap == {<<Len(EncodingDomain(env.map.int_map[lit.sum.term[i].var][1])),
                        lit.sum.term[i].var, lit.sum.term[i].coef>> : i \in 1..Len(lit.sum.term)}
         IN Bind(DecomposeLoop([env |-> env, heap |-> heap, pending |-> <<>>,
                                dom_product |-> 1, ret |-> <<>>], lit),
                 LAMBDA st :
                   LET sum == LinearSumAdd(SumOfEntries(PendingEntries(st.pending),
                                                        Len(st.pending)),
                                           lit.sum.constant)
                   IN [env |-> st.env, lits |-> Append(st.ret, LinearLit(sum, lit.op))])

N_MAX_TERM == 6

\* the `while queue_positive.len() + queue_negative.len() > N_MAX_TERM` loop;
\* st is [env, queue_positive, queue_negative, ret]
RECURSIVE DecomposeLogLoop(_, _)
DecomposeLogLoop(st, lit) ==
    IF Len(st.queue_positive) + Len(st.queue_negative) <= N_MAX_TERM \/ st.env.panic THEN st
    ELSE LET selecting_negative == ~(Len(st.queue_positive) > Len(st.queue_negative))
             target_queue == IF selecting_negative THEN st.queue_negative ELSE st.queue_positive
             another_queue == IF selecting_negative THEN st.queue_positive ELSE st.queue_negative
             n_pack == Min2(N_MAX_TERM, Len(target_queue))
             aux_sum == SumOfEntries(SubSeq(target_queue, 1, n_pack), n_pack)
             rest == SubSeq(target_queue, n_pack + 1, Len(target_queue))
             rem_sum == SumOfEntries(rest \o another_queue, Len(rest) + Len(another_queue))
             refined == AuxDomain(st.env.norm_vars, aux_sum, rem_sum, lit.sum.constant)
             aux_dom == IF selecting_negative THEN DomainNegate(refined) ELSE refined
             nv == NewIntVar(st.env.norm_vars, DomainRepr(aux_dom))
             aux_var == Len(nv.int_var)
             env == convert_int_var_log_encoding([st.env EXCEPT !.norm_vars = nv], aux_var)
             pushed == Append(rest, <<aux_var, IF selecting_negative THEN -1 ELSE 1>>)
         IN DecomposeLogLoop(
               [env |-> env,
                queue_positive |-> IF selecting_negative THEN st.queue_positive ELSE pushed,
                queue_negative |-> IF selecting_negative THEN pushed ELSE st.queue_negative,
                ret |-> Append(st.ret,
                               LinearLit(add_coef(aux_sum, aux_var,
                                                  IF selecting_negative THEN 1 ELSE -1),
                                         IF lit.op = "Ge" THEN "Ge" ELSE "Eq"))],
               lit)

\* [env, lits]
decompose_linear_lit_log(env, lit) ==
    IF env.panic THEN [env |-> env, lits |-> <<>>]
    ELSE IF lit.op \notin {"Ge", "Eq", "Ne"}
    THEN [env |-> [env EXCEPT !.panic = TRUE], lits |-> <<>>]
    ELSE LET entries == [i \in 1..Len(lit.sum.term) |->
                            <<lit.sum.term[i].var, lit.sum.term[i].coef>>]
         IN Bind(DecomposeLogLoop(
                    [env |-> env,
                     queue_positive |-> SelectSeq(entries, LAMBDA e : e[2] > 0),
                     queue_negative |-> SelectSeq(entries, LAMBDA e : e[2] < 0),
                     ret |-> <<>>], lit),
                 LAMBDA st :
                   Bind(st.queue_positive \o st.queue_negative,
                        LAMBDA all :
                          [env |-> st.env,
                           lits |-> Append(st.ret,
                                           LinearLit(LinearSumAdd(SumOfEntries(all, Len(all)),
                                                                  lit.sum.constant),
                                                     lit.op))]))

----------------------------------------------------------------------------
(* Native order encoding *)

is_ge_order_encoding_native_applicable(env, sum) ==
    LET enc(i) == env.map.int_map[sum.term[i].var][1]
        RECURSIVE product(_)
        product(k) == IF k = 0 THEN 1 ELSE product(k - 1) * Len(enc(k).order_encoding[1].domain)
    IN /\ \A i \in 1..Len(sum.term) : enc(i).order_encoding # None
       /\ Len(sum.term) <= env.config.native_linear_encoding_terms
       /\ product(Len(sum.term)) >= env.config.native_linear_encoding_domain_product_threshold

\* SAT::add_order_encoding_linear
SatAddOrderEncodingLinear(s, lits, domain, coefs, constant) ==
    [s EXCEPT !.linears = Append(@, [lits |-> lits, domain |-> domain,
                                     coefs |-> coefs, constant |-> constant])]

\* env after the call
encode_linear_ge_order_encoding_native(env, sum) ==
    LET info == [i \in 1..Len(sum.term) |->
                    InfoOrder(sum.term[i].coef,
                              env.map.int_map[sum.term[i].var][1].order_encoding[1])]
        lits == [i \in 1..Len(info) |->
                    [j \in 1..(domain_size(info[i]) - 1) |-> at_least(info[i], j)]]
        domain == [i \in 1..Len(info) |->
                    [j \in 1..domain_size(info[i]) |-> InfoDomain(info[i], j - 1)]]
        coefs == [i \in 1..Len(info) |-> 1]
    IN [env EXCEPT !.sat = SatAddOrderEncodingLinear(@, lits, domain, coefs, sum.constant)]

----------------------------------------------------------------------------
(* encode_constraint *)

Constraint(bool_lit, linear_lit) == [bool_lit |-> bool_lit, linear_lit |-> linear_lit]

\* the conversion of the Boolean literals, in order: [env, lits]
RECURSIVE ConvertBoolLits(_, _, _)
ConvertBoolLits(env, bool_lit, k) ==
    IF k = 0 THEN [env |-> env, lits |-> <<>>]
    ELSE LET prev == ConvertBoolLits(env, bool_lit, k - 1)
             r == convert_bool_lit(prev.env, bool_lit[k])
         IN [env |-> r.env, lits |-> Append(prev.lits, r.lit)]

\* the decomposition of each sum with op Ge, in order: [env, lits]
RECURSIVE DecomposeSums(_, _, _)
DecomposeSums(env, sums, k) ==
    IF k = 0 THEN [env |-> env, lits |-> <<>>]
    ELSE LET prev == DecomposeSums(env, sums, k - 1)
         IN Bind(decompose_linear_lit(prev.env, LinearLit(sums[k], "Ge")),
                 LAMBDA d : [env |-> d.env, lits |-> prev.lits \o d.lits])

\* the Log arm without the strictness offsets of Lt and Gt
LogNormalized_NoStrict(linear_lit) ==
    CASE linear_lit.op \in {"Eq", "Ne", "Ge"} -> linear_lit
      [] linear_lit.op \in {"Le", "Lt"} -> LinearLit(LinearSumMul(linear_lit.sum, -1), "Ge")
      [] linear_lit.op = "Gt" -> LinearLit(linear_lit.sum, "Ge")

\* the Log arm: Le, Lt and Gt become Ge
LogNormalized(linear_lit) ==
    CASE linear_lit.op \in {"Eq", "Ne", "Ge"} -> linear_lit
      [] linear_lit.op = "Le" -> LinearLit(LinearSumMul(linear_lit.sum, -1), "Ge")
      [] linear_lit.op = "Lt" ->
           LinearLit(LinearSumAdd(LinearSumMul(linear_lit.sum, -1), -1), "Ge")
      [] linear_lit.op = "Gt" -> LinearLit(LinearSumAdd(linear_lit.sum, -1), "Ge")

\* what one linear literal adds to simplified_linears: [env, linears]
SimplifyLinear(env, linear_lit) ==
    LET sum == linear_lit.sum
        op == linear_lit.op
        kind == suggest_encoder(env, linear_lit)
    IN IF is_unsatisfiable_linear(env, linear_lit) THEN [env |-> env, linears |-> <<>>]
       ELSE CASE kind = "MixedGe" /\ op = "Ne" ->
                   Bind(decompose_linear_lit(
                           env, LinearLit(LinearSumAdd(LinearSumMul(sum, -1), -1), "Ge")),
                        LAMBDA d1 :
                          Bind(decompose_linear_lit(
                                  d1.env, LinearLit(LinearSumAdd(sum, -1), "Ge")),
                               LAMBDA d2 :
                                 [env |-> d2.env, linears |-> <<d1.lits, d2.lits>>]))
              [] kind = "MixedGe" /\ op # "Ne" ->
                   LET simplified_sums ==
                           CASE op = "Eq" -> <<sum, LinearSumMul(sum, -1)>>
                             [] op = "Le" -> <<LinearSumMul(sum, -1)>>
                             [] op = "Lt" -> <<LinearSumAdd(LinearSumMul(sum, -1), -1)>>
                             [] op = "Ge" -> <<sum>>
                             [] op = "Gt" -> <<LinearSumAdd(sum, -1)>>
                   IN Bind(DecomposeSums(env, simplified_sums, Len(simplified_sums)),
                           LAMBDA d : [env |-> d.env, linears |-> <<d.lits>>])
              [] kind = "DirectSimple" -> [env |-> env, linears |-> <<<<linear_lit>>>>]
              [] kind = "DirectEqNe" ->
                   Bind(decompose_linear_lit(env, linear_lit),
                        LAMBDA d : [env |-> d.env, linears |-> <<d.lits>>])
              [] kind = "Log" ->
                   Bind(decompose_linear_lit_log(env, LogNormalized(linear_lit)),
                        LAMBDA d : [env |-> d.env, linears |-> <<d.lits>>])
              [] OTHER -> [env |-> [env EXCEPT !.panic = TRUE], linears |-> <<>>]

\* the first loop over constr.linear_lit: [env, linears]
RECURSIVE SimplifiedLinears(_, _, _)
SimplifiedLinears(env, linear_lit, k) ==
    IF k = 0 THEN [env |-> env, linears |-> <<>>]
    ELSE LET prev == SimplifiedLinears(env, linear_lit, k - 1) IN
         IF prev.env.panic THEN prev
         ELSE Bind(SimplifyLinear(prev.env, linear_lit[k]),
                   LAMBDA s : [env |-> s.env, linears |-> prev.linears \o s.linears])

\* the clauses that encode one simplified literal, on either emission path:
\* [env, clause_set]; the native primitive is used only where `native` allows it
EncodeSimplified(env, linear_lit, native) ==
    LET kind == suggest_encoder(env, linear_lit)
        none == [env |-> env, clause_set |-> ClauseSetNew]
        failed == [env |-> [env EXCEPT !.panic = TRUE], clause_set |-> ClauseSetNew]
        got(cs) == IF cs = Panicked THEN failed ELSE [env |-> env, clause_set |-> cs]
    IN CASE kind = "MixedGe" ->
              IF native /\ linear_lit.op # "Ge" THEN failed
              ELSE IF native /\ is_ge_order_encoding_native_applicable(env, linear_lit.sum)
              THEN [env |-> encode_linear_ge_order_encoding_native(env, linear_lit.sum),
                    clause_set |-> ClauseSetNew]
              ELSE got(encode_linear_ge_mixed(env, linear_lit.sum))
         [] kind = "DirectSimple" ->
              LET encoded == encode_simple_linear_direct_encoding(env, linear_lit) IN
              IF encoded = None THEN none
              ELSE [env |-> env, clause_set |-> ClauseSetPush(ClauseSetNew, encoded[1])]
         [] kind = "DirectEqNe" ->
              IF linear_lit.op = "Eq" THEN got(encode_linear_eq_direct(env, linear_lit.sum))
              ELSE IF linear_lit.op = "Ne" THEN got(encode_linear_ne_direct(env, linear_lit.sum))
              ELSE failed
         [] kind = "Log" ->
              IF linear_lit.op \notin {"Eq", "Ne", "Ge"} THEN failed
              ELSE Bind(encode_linear_log(env, linear_lit.sum, linear_lit.op),
                        LAMBDA r : IF r.clause_set = Panicked \/ r.env.panic THEN failed
                                   ELSE r)
         [] OTHER -> failed

\* a conjunction of simplified literals encoded in order: [env, clause_set]
RECURSIVE EncodeConjunction(_, _, _, _)
EncodeConjunction(env, linear_lits, k, native) ==
    IF k = 0 THEN [env |-> env, clause_set |-> ClauseSetNew]
    ELSE LET prev == EncodeConjunction(env, linear_lits, k - 1, native) IN
         IF prev.env.panic THEN prev
         ELSE Bind(EncodeSimplified(prev.env, linear_lits[k], native),
                   LAMBDA r : [env |-> r.env,
                               clause_set |-> ClauseSetAppend(prev.clause_set, r.clause_set)])

\* env with the clauses of a ClauseSet added, each extended by the literals tail
AddExtended(env, clause_set, tail) ==
    [env EXCEPT !.sat = SatAddClauses(@, [i \in 1..ClauseSetLen(clause_set) |->
                                             ClauseSetIndex(clause_set, i - 1) \o tail])]

\* the loop `for linear_lits in simplified_linears`;
\* st is [env, bool_lits, encoded_lits, returned]
RECURSIVE EncodedLits(_, _, _)
EncodedLits(st, simplified_linears, k) ==
    IF k = 0 THEN st
    ELSE LET prev == EncodedLits(st, simplified_linears, k - 1) IN
         IF prev.env.panic \/ prev.returned THEN prev
         ELSE Bind(EncodeConjunction(prev.env, simplified_linears[k],
                                     Len(simplified_linears[k]), FALSE),
                   LAMBDA c :
                     IF c.env.panic THEN [prev EXCEPT !.env = c.env]
                     ELSE IF ClauseSetLen(c.clause_set) = 0
                     THEN [prev EXCEPT !.env = c.env, !.returned = TRUE]
                     ELSE IF ClauseSetLen(c.clause_set) = 1
                     THEN [prev EXCEPT !.env = c.env,
                                       !.bool_lits = @ \o ClauseSetIndex(c.clause_set, 0)]
                     ELSE [prev EXCEPT !.env = c.env,
                                       !.encoded_lits = Append(@, c.clause_set)])

\* the clauses of each encoded conjunction extended by its channeling literal
RECURSIVE AddChanneled(_, _, _, _)
AddChanneled(env, encoded_lits, channeling_lits, k) ==
    IF k = 0 THEN env
    ELSE AddExtended(AddChanneled(env, encoded_lits, channeling_lits, k - 1),
                     encoded_lits[k], <<channeling_lits[k]>>)

\* the emission with every channeling literal of positive polarity
EmitEncoded_ChannelPolarity(env, bool_lits, encoded_lits) ==
    LET n == Len(encoded_lits) IN
    IF n = 0 THEN [env EXCEPT !.sat = SatAddClause(@, bool_lits)]
    ELSE IF n = 1 THEN AddExtended(env, encoded_lits[1], bool_lits)
    ELSE IF n = 2 /\ Len(bool_lits) = 0
    THEN LET v == env.sat.nvars + 1 IN
         AddChanneled([env EXCEPT !.sat = SatAlloc(@, 1)], encoded_lits, <<v, v>>, n)
    ELSE LET vs == NewLits(env.sat, n) IN
         AddChanneled([env EXCEPT !.sat = SatAddClause(SatAlloc(@, n), bool_lits \o vs)],
                      encoded_lits, vs, n)

\* the emission once every conjunction is encoded
EmitEncoded(env, bool_lits, encoded_lits) ==
    LET n == Len(encoded_lits) IN
    IF n = 0 THEN [env EXCEPT !.sat = SatAddClause(@, bool_lits)]
    ELSE IF n = 1 THEN AddExtended(env, encoded_lits[1], bool_lits)
    ELSE IF n = 2 /\ Len(bool_lits) = 0
    THEN LET v == env.sat.nvars + 1 IN
         AddChanneled([env EXCEPT !.sat = SatAlloc(@, 1)], encoded_lits, <<v, Neg(v)>>, n)
    ELSE LET vs == NewLits(env.sat, n)
             all == bool_lits \o vs
         IN AddChanneled([env EXCEPT !.sat = SatAddClause(SatAlloc(@, n), all)],
                         encoded_lits, [i \in 1..n |-> Neg(vs[i])], n)

\* encode_constraint took the return of the loop over simplified_linears: the
\* conjunction that encodes one of the literals has no clause
ZeroLengthReturn(env, constr) ==
    /\ Len(constr.linear_lit) > 0
    /\ Bind(ConvertBoolLits(env, constr.bool_lit, Len(constr.bool_lit)),
            LAMBDA b :
              Bind(SimplifiedLinears(b.env, constr.linear_lit, Len(constr.linear_lit)),
                   LAMBDA s :
                     /\ ~s.env.panic
                     /\ Len(s.linears) > 0
                     /\ ~(Len(s.linears) = 1 /\ Len(b.lits) = 0)
                     /\ Bind(EncodedLits([env |-> s.env, bool_lits |-> b.lits,
                                          encoded_lits |-> <<>>, returned |-> FALSE],
                                         s.linears, Len(s.linears)),
                             LAMBDA e : ~e.env.panic /\ e.returned)))

\* encode_constraint as it reaches the emission: [reached, env, bool_lits,
\* encoded_lits], bool_lits with the one-clause conjunctions folded in and
\* encoded_lits the conjunctions of two clauses or more
BeforeEmission(env, constr) ==
    LET no == [reached |-> FALSE, env |-> env, bool_lits |-> <<>>, encoded_lits |-> <<>>] IN
    IF Len(constr.linear_lit) = 0 THEN no
    ELSE Bind(ConvertBoolLits(env, constr.bool_lit, Len(constr.bool_lit)),
              LAMBDA b :
                Bind(SimplifiedLinears(b.env, constr.linear_lit, Len(constr.linear_lit)),
                     LAMBDA s :
                       IF s.env.panic \/ Len(s.linears) = 0
                            \/ (Len(s.linears) = 1 /\ Len(b.lits) = 0)
                       THEN no
                       ELSE Bind(EncodedLits([env |-> s.env, bool_lits |-> b.lits,
                                              encoded_lits |-> <<>>, returned |-> FALSE],
                                             s.linears, Len(s.linears)),
                                 LAMBDA e :
                                   [reached |-> ~e.env.panic /\ ~e.returned, env |-> e.env,
                                    bool_lits |-> e.bool_lits,
                                    encoded_lits |-> e.encoded_lits])))

\* the emission paths where the loop over simplified_linears never returns early
EmitSimplified_NoEarlyReturn(b, s) ==
    IF s.env.panic THEN s.env
    ELSE IF Len(s.linears) = 0 THEN [s.env EXCEPT !.sat = SatAddClause(@, b.lits)]
    ELSE IF Len(s.linears) = 1 /\ Len(b.lits) = 0
    THEN Bind(EncodeConjunction(s.env, s.linears[1], Len(s.linears[1]), TRUE),
              LAMBDA c : IF c.env.panic THEN c.env
                         ELSE AddExtended(c.env, c.clause_set, <<>>))
    ELSE Bind(EncodedLits([env |-> s.env, bool_lits |-> b.lits,
                           encoded_lits |-> <<>>, returned |-> FALSE],
                          s.linears, Len(s.linears)),
              LAMBDA e : IF e.env.panic THEN e.env
                         ELSE EmitEncoded(e.env, e.bool_lits, e.encoded_lits))

\* the emission paths, once the literals are simplified: b is the converted Boolean
\* literals, s the simplified literals
EmitSimplified(b, s) ==
    IF s.env.panic THEN s.env
    ELSE IF Len(s.linears) = 0 THEN [s.env EXCEPT !.sat = SatAddClause(@, b.lits)]
    ELSE IF Len(s.linears) = 1 /\ Len(b.lits) = 0
    THEN Bind(EncodeConjunction(s.env, s.linears[1], Len(s.linears[1]), TRUE),
              LAMBDA c : IF c.env.panic THEN c.env
                         ELSE AddExtended(c.env, c.clause_set, <<>>))
    ELSE Bind(EncodedLits([env |-> s.env, bool_lits |-> b.lits,
                           encoded_lits |-> <<>>, returned |-> FALSE],
                          s.linears, Len(s.linears)),
              LAMBDA e : IF e.env.panic \/ e.returned THEN e.env
                         ELSE EmitEncoded(e.env, e.bool_lits, e.encoded_lits))

\* env after the call
encode_constraint(env, constr) ==
    Bind(ConvertBoolLits(env, constr.bool_lit, Len(constr.bool_lit)),
         LAMBDA b :
           IF Len(constr.linear_lit) = 0 THEN [b.env EXCEPT !.sat = SatAddClause(@, b.lits)]
           ELSE EmitSimplified(b, SimplifiedLinears(b.env, constr.linear_lit,
                                                    Len(constr.linear_lit))))

----------------------------------------------------------------------------
(* encode *)

Mul(x, y, m) == [kind |-> "Mul", x |-> x, y |-> y, m |-> m]

ActiveVerticesConnected(vertices, edges) ==
    [kind |-> "ActiveVerticesConnected", vertices |-> vertices, edges |-> edges]

\* the linear literals of the pending constraints
PendingLinearLits(constraints) ==
    UNION {{constraints[c].linear_lit[k] : k \in 1..Len(constraints[c].linear_lit)} :
              c \in 1..Len(constraints)}

\* is_simple without the bound on the number of terms
is_simple_AnyLength(lit) == lit.op \in {"Eq", "Ne"}

is_simple(lit) == lit.op \in {"Eq", "Ne"} /\ Len(lit.sum.term) <= 2

\* direct_encoding_vars once both loops of the `if config.use_direct_encoding` block ran
DirectEncodingVars(nv, nm, cfg) ==
    IF ~cfg.use_direct_encoding THEN {}
    ELSE LET un == unencoded_int_vars(nv, nm)
             inserted == {un[k] : k \in {j \in 1..Len(un) :
                                            \/ nv.int_var[un[j]].kind = "Domain"
                                            \/ cfg.direct_encoding_for_binary_vars}}
             removed == UNION {{lit.sum.term[i].var : i \in 1..Len(lit.sum.term)} :
                                  lit \in {l \in PendingLinearLits(nm.constraints) : ~is_simple(l)}}
         IN inserted \ removed

\* the second loop over the unencoded variables, its first k iterations
RECURSIVE EncodeIntVars(_, _, _, _)
EncodeIntVars(env, un, direct_encoding_vars, k) ==
    IF k = 0 THEN env
    ELSE Bind(EncodeIntVars(env, un, direct_encoding_vars, k - 1),
              LAMBDA e :
                IF e.panic THEN e
                ELSE IF e.config.force_use_log_encoding
                     THEN convert_int_var_log_encoding(e, un[k])
                     ELSE IF un[k] \in direct_encoding_vars
                          THEN convert_int_var_direct_encoding(e, un[k])
                          ELSE convert_int_var_order_encoding(e, un[k]))

\* the sizes of the SAT instance and of the variable table at a point of encode
Mark(env) ==
    [clauses |-> Len(env.sat.clauses), linears |-> Len(env.sat.linears),
     graphs |-> Len(env.sat.graphs), nvars |-> env.sat.nvars,
     int_vars |-> Len(env.norm_vars.int_var)]

\* the loop over the constraints taken from the last constraint to the first
RECURSIVE EncodeConstraints_Reversed(_, _, _)
EncodeConstraints_Reversed(st, constrs, k) ==
    IF k = 0 THEN st
    ELSE Bind(EncodeConstraints_Reversed(st, constrs, k - 1),
              LAMBDA r :
                IF r.env.panic THEN r
                ELSE Bind(encode_constraint(r.env, constrs[Len(constrs) + 1 - k]),
                          LAMBDA e : [env |-> e, marks |-> Append(r.marks, Mark(e))]))

\* `for constr in constrs`, the first k iterations: [env, marks], a mark after each
RECURSIVE EncodeConstraints(_, _, _)
EncodeConstraints(st, constrs, k) ==
    IF k = 0 THEN st
    ELSE Bind(EncodeConstraints(st, constrs, k - 1),
              LAMBDA r :
                IF r.env.panic THEN r
                ELSE Bind(encode_constraint(r.env, constrs[k]),
                          LAMBDA e : [env |-> e, marks |-> Append(r.marks, Mark(e))]))

\* the conversion of the vertices of a connectivity constraint, in order: [env, lits]
RECURSIVE ConvertVertices(_, _, _)
ConvertVertices(env, vertices, k) ==
    IF k = 0 THEN [env |-> env, lits |-> <<>>]
    ELSE Bind(ConvertVertices(env, vertices, k - 1),
              LAMBDA r : Bind(convert_bool_lit(r.env, vertices[k]),
                              LAMBDA c : [env |-> c.env, lits |-> Append(r.lits, c.lit)]))

HasLogEncoding(mp, v) == IntMapGet(mp, v) # None /\ IntMapGet(mp, v)[1].log_encoding # None

\* one iteration of `for constr in extra_constrs`
EncodeExtra(env, constr) ==
    IF constr.kind = "ActiveVerticesConnected"
    THEN Bind(ConvertVertices(env, constr.vertices, Len(constr.vertices)),
              LAMBDA r : [r.env EXCEPT
                            !.sat = SatAddActiveVerticesConnected(@, r.lits, constr.edges)])
    ELSE IF ~(HasLogEncoding(env.map, constr.x) /\ HasLogEncoding(env.map, constr.y)
                /\ HasLogEncoding(env.map, constr.m))
         THEN [env EXCEPT !.panic = TRUE]
         ELSE Bind(encode_mul_log(env, constr.x, constr.y, constr.m),
                   LAMBDA r : [r.env EXCEPT !.sat = SatAddClauseSet(@, r.clause_set)])

\* `for constr in extra_constrs`, the first k iterations: [env, marks]
RECURSIVE EncodeExtras(_, _, _)
EncodeExtras(st, extra_constrs, k) ==
    IF k = 0 THEN st
    ELSE Bind(EncodeExtras(st, extra_constrs, k - 1),
              LAMBDA r :
                IF r.env.panic THEN r
                ELSE Bind(EncodeExtra(r.env, extra_constrs[k]),
                          LAMBDA e : [env |-> e, marks |-> Append(r.marks, Mark(e))]))

\* encode with the watermark taken after the variable loop
encode_EarlyWatermark(env, nm) ==
    Bind(EncodeIntVars(env, unencoded_int_vars(env.norm_vars, nm),
                       DirectEncodingVars(env.norm_vars, nm, env.config),
                       Len(unencoded_int_vars(env.norm_vars, nm))),
         LAMBDA v :
           Bind(EncodeConstraints([env |-> v, marks |-> <<Mark(env), Mark(v)>>],
                                  nm.constraints, Len(nm.constraints)),
                LAMBDA c :
                  Bind(EncodeExtras(c, nm.extra_constraints, Len(nm.extra_constraints)),
                       LAMBDA x :
                         [env |-> x.env,
                          norm |-> IF x.env.panic THEN nm
                                   ELSE [constraints |-> <<>>, extra_constraints |-> <<>>,
                                         num_encoded_vars |-> Len(v.norm_vars.int_var)],
                          marks |-> x.marks])))

\* encode that leaves the pending constraints in the NormCSP
encode_NoDrain(env, nm) ==
    Bind(EncodeIntVars(env, unencoded_int_vars(env.norm_vars, nm),
                       DirectEncodingVars(env.norm_vars, nm, env.config),
                       Len(unencoded_int_vars(env.norm_vars, nm))),
         LAMBDA v :
           Bind(EncodeConstraints([env |-> v, marks |-> <<Mark(env), Mark(v)>>],
                                  nm.constraints, Len(nm.constraints)),
                LAMBDA c :
                  Bind(EncodeExtras(c, nm.extra_constraints, Len(nm.extra_constraints)),
                       LAMBDA x :
                         [env |-> x.env,
                          norm |-> IF x.env.panic THEN nm
                                   ELSE [nm EXCEPT !.extra_constraints = <<>>,
                                                   !.num_encoded_vars =
                                                       Len(x.env.norm_vars.int_var)],
                          marks |-> x.marks])))

\* encode(norm, sat, map, config): [env, norm, marks]; env carries sat, map,
\* norm.vars and whether the call panicked, norm the rest of the NormCSP.
\* marks: at entry, after the variables, after each constraint, after each extra
encode(env, nm) ==
    Bind(EncodeIntVars(env, unencoded_int_vars(env.norm_vars, nm),
                       DirectEncodingVars(env.norm_vars, nm, env.config),
                       Len(unencoded_int_vars(env.norm_vars, nm))),
         LAMBDA v :
           Bind(EncodeConstraints([env |-> v, marks |-> <<Mark(env), Mark(v)>>],
                                  nm.constraints, Len(nm.constraints)),
                LAMBDA c :
                  Bind(EncodeExtras(c, nm.extra_constraints, Len(nm.extra_constraints)),
                       LAMBDA x :
                         [env |-> x.env,
                          norm |-> IF x.env.panic THEN nm
                                   ELSE [constraints |-> <<>>, extra_constraints |-> <<>>,
                                         num_encoded_vars |-> Len(x.env.norm_vars.int_var)],
                          marks |-> x.marks])))

----------------------------------------------------------------------------
(* Decoding a model: EncodeMap::get_int_value_checked *)

\* the search with the middle rounded down and the lower half kept on a true literal
RECURSIVE OrderDecodeSearch_LowerHalf(_, _, _, _)
OrderDecodeSearch_LowerHalf(m, lits, left, right) ==
    IF left < right
    THEN LET mid == (left + right + 1) \div 2 IN
         IF LitTrue(m, lits[mid]) THEN OrderDecodeSearch_LowerHalf(m, lits, left, mid - 1)
         ELSE OrderDecodeSearch_LowerHalf(m, lits, mid, right)
    ELSE left

RECURSIVE OrderDecodeSearch(_, _, _, _)
OrderDecodeSearch(m, lits, left, right) ==
    IF left < right
    THEN LET mid == (left + right + 1) \div 2 IN
         IF LitTrue(m, lits[mid]) THEN OrderDecodeSearch(m, lits, mid, right)
         ELSE OrderDecodeSearch(m, lits, left, mid - 1)
    ELSE left

\* [panic, ret]: ret is the Option returned, panic tells that an assertion failed
get_int_value_checked(mp, m, var) ==
    IF IntMapGet(mp, var) = None THEN [panic |-> FALSE, ret |-> None]
    ELSE LET encoding == mp.int_map[var][1] IN
         IF encoding.order_encoding # None THEN
             LET e == encoding.order_encoding[1]
                 left == OrderDecodeSearch(m, e.lits, 0, Len(e.lits))
             IN [panic |-> FALSE, ret |-> Some(e.domain[left + 1])]
         ELSE IF encoding.direct_encoding # None THEN
             LET e == encoding.direct_encoding[1]
                 set == {i \in 1..Len(e.lits) : LitTrue(m, e.lits[i])}
             IN IF Cardinality(set) = 1
                THEN [panic |-> FALSE, ret |-> Some(e.domain[CHOOSE i \in set : TRUE])]
                ELSE [panic |-> TRUE, ret |-> None]
         ELSE LET e == encoding.log_encoding[1] IN
              [panic |-> FALSE,
               ret |-> Some(SumSeq([i \in 1..Len(e.lits) |->
                                       IF LitTrue(m, e.lits[i]) THEN Pow2(i - 1) ELSE 0]))]

----------------------------------------------------------------------------
(* The test harness (EncoderTester): the two ways of enumerating solutions *)

\* value of a linear sum under an assignment of the integer variables
SumValue(sum, a) ==
    sum.constant + SumSeq([i \in 1..Len(sum.term) |-> a[sum.term[i].var] * sum.term[i].coef])

LitHolds(lit, a) == Compare(lit.op, SumValue(lit.sum, a), 0)

\* the domain product of the integer variables vs
RECURSIVE Assignments(_, _)
Assignments(nv, vs) ==
    IF vs = {} THEN {<<>>}
    ELSE LET v == CHOOSE u \in vs : \A w \in vs : w <= u
             rest == Assignments(nv, vs \ {v})
         IN {[u \in vs |-> IF u = v THEN x ELSE a[u]] :
                a \in rest, x \in ReprValues(nv.int_var[v])}

\* enumerate_valid_assignments_by_literals
SolutionsByLiterals(nv, lits, mul) ==
    {a \in Assignments(nv, IntVars(nv)) :
        /\ \A k \in 1..Len(lits) : LitHolds(lits[k], a)
        /\ \A k \in 1..Len(mul) : a[mul[k][1]] * a[mul[k][2]] = a[mul[k][3]]}

DecodeModel(mp, m, vs) == [v \in vs |-> get_int_value_checked(mp, m, v).ret[1]]

\* enumerate_valid_assignments_by_sat
SolutionsBySat(s, mp, nv) == {DecodeModel(mp, m, IntVars(nv)) : m \in Models(s)}

\* coefficients and constants of the sums the harness encodes
Coefs == {-MaxCoef, -1, 1, MaxCoef}

Consts == {-MaxConst, 0, MaxConst}

MaxIntVars == 3

\* domains the harness gives to its order- and direct-encoded variables, by index
TestDomainList == << <<0, 1, 2>>, <<-1, 1>>, <<-2, 0, 1>> >>

TestDomain(v) == TestDomainList[((v - 1) % Len(TestDomainList)) + 1]

\* the harness's record of the call under test: the literals, the Boolean
\* literals and the number of integer variables the constraint was stated over
NoCall ==
    [fn |-> "none", lits |-> <<>>, mul |-> <<>>, ret |-> None, panic |-> FALSE,
     bool_lit |-> <<>>, int_vars |-> 0]

Call(fn, lits, mul, ret, panic) ==
    [fn |-> fn, lits |-> lits, mul |-> mul, ret |-> ret, panic |-> panic,
     bool_lit |-> <<>>, int_vars |-> 0]

ConfigDefault ==
    [use_direct_encoding |-> TRUE,
     direct_encoding_for_binary_vars |-> FALSE,
     force_use_log_encoding |-> FALSE,
     domain_product_threshold |-> 1000,
     native_linear_encoding_terms |-> 4,
     native_linear_encoding_domain_product_threshold |-> 20]

\* EncoderTester::new
Init ==
    /\ norm_vars = NormVarsNew
    /\ sat = SatNew
    /\ map = EncodeMapNew
    /\ config = ConfigDefault
    /\ call = NoCall
    /\ norm_csp = NormNew

CurEnv == Env(sat, map, norm_vars)

SetEnv(env) ==
    /\ sat' = env.sat
    /\ map' = env.map
    /\ norm_vars' = env.norm_vars

\* the harness after a call: r is [sat, call]
Returned(r) ==
    /\ sat' = r.sat
    /\ call' = r.call

\* a call that returned a ClauseSet, which the harness adds to the SAT instance
ClauseSetCall(fn, lit, clause_set) ==
    [sat |-> IF clause_set = Panicked THEN sat ELSE SatAddClauseSet(sat, clause_set),
     call |-> Call(fn, <<lit>>, <<>>, Some(clause_set), clause_set = Panicked)]

\* EncoderTester::add_int_var
add_int_var(domain, direct) ==
    /\ call.fn = "none"
    /\ LET nv == NewIntVar(norm_vars, DomainRepr(domain))
           v == Len(nv.int_var)
           env == Env(sat, map, nv)
       IN SetEnv(IF direct THEN convert_int_var_direct_encoding(env, v)
                 ELSE convert_int_var_order_encoding(env, v))
    /\ UNCHANGED <<config, call, norm_csp>>

AddIntVar ==
    /\ Len(norm_vars.int_var) < MaxIntVars
    /\ \E b \in BOOLEAN : add_int_var(TestDomain(Len(norm_vars.int_var) + 1), b)

\* the sums over the variables 1..n: each variable absent or with a coefficient
RECURSIVE SumsOver(_, _)
SumsOver(n, cs) ==
    IF n = 0 THEN {LinearSumConstant(c) : c \in cs}
    ELSE LET rest == SumsOver(n - 1, cs) IN
         rest \cup {add_coef(s, n, k) : s \in rest, k \in Coefs}

TestSums == SumsOver(Len(norm_vars.int_var), Consts)

AllOrderOrDirect(mp, sum) ==
    \A i \in 1..Len(sum.term) : is_direct_or_order_encoding(mp.int_map[sum.term[i].var][1])

AllDirect(mp, sum) ==
    \A i \in 1..Len(sum.term) : is_direct_encoding(mp.int_map[sum.term[i].var][1])

\* test_encode_linear_ge_mixed: encode the literal, add the clauses
TestEncodeLinearGeMixed ==
    /\ call.fn = "none"
    /\ \E sum \in TestSums :
         Returned(ClauseSetCall("encode_linear_ge_mixed", LinearLit(sum, "Ge"),
                                encode_linear_ge_mixed(CurEnv, sum)))
    /\ UNCHANGED <<norm_vars, map, config, norm_csp>>

NextGeMixed == AddIntVar \/ TestEncodeLinearGeMixed

SpecGeMixed == Init /\ [][NextGeMixed]_vars

\* the sorted list of the solutions decoded from the models ms equals the sorted
\* list of the brute-force solutions: the same solutions, each decoded once
SameSolutions(ms, mp, nv, by_literals) ==
    /\ {DecodeModel(mp, ms[k], IntVars(nv)) : k \in 1..Len(ms)} = by_literals
    /\ Len(ms) = Cardinality(by_literals)

\* run_check
RunCheck ==
    SameSolutions(ModelSeq(sat), map, norm_vars,
                  SolutionsByLiterals(norm_vars, call.lits, call.mul))

\* C1: the clauses of encode_linear_ge_mixed, with the structural clauses of
\* the variables (each order- or direct-encoded), have as decoded models
\* exactly the assignments of the domain product with sum >= 0.
C1_MixedGeOracle ==
    call.fn = "encode_linear_ge_mixed" => ~call.panic /\ RunCheck

C1_Witness ==
    /\ call.fn = "encode_linear_ge_mixed"
    /\ LET sum == call.lits[1].sum IN
       /\ Len(sum.term) = 3
       /\ \E i \in 1..3 : map.int_map[sum.term[i].var][1].order_encoding # None
       /\ \E i \in 1..3 : map.int_map[sum.term[i].var][1].direct_encoding # None
       /\ \E i \in 1..3 : sum.term[i].coef < 0
       /\ \E i \in 1..3 : sum.term[i].coef > 0
    /\ ClauseSetLen(call.ret[1]) > 1
    /\ SolutionsBySat(sat, map, norm_vars) # {}
    /\ SolutionsBySat(sat, map, norm_vars) # Assignments(norm_vars, IntVars(norm_vars))

----------------------------------------------------------------------------
(* Direct Eq / Ne / simple under the harness *)

\* test_encode_linear_eq_direct, test_encode_linear_eq_direct_two_terms
TestEncodeLinearEqDirect ==
    /\ call.fn = "none"
    /\ \E sum \in TestSums :
         /\ AllDirect(map, sum)
         /\ Returned(ClauseSetCall("encode_linear_eq_direct", LinearLit(sum, "Eq"),
                                   encode_linear_eq_direct(CurEnv, sum)))
    /\ UNCHANGED <<norm_vars, map, config, norm_csp>>

NextEqDirect == AddIntVar \/ TestEncodeLinearEqDirect

SpecEqDirect == Init /\ [][NextEqDirect]_vars

\* C2: the clauses of encode_linear_eq_direct (two-term fast path and general
\* recursion), with the exactly-one clauses, have as decoded models exactly
\* the assignments of the domain product with sum = 0.
C2_DirectEqOracle ==
    call.fn = "encode_linear_eq_direct" => ~call.panic /\ RunCheck

C2_Witness ==
    /\ call.fn = "encode_linear_eq_direct"
    /\ LET sum == call.lits[1].sum IN
       /\ Len(sum.term) = 3
       /\ sum.constant # 0
       /\ \E i \in 1..3 : sum.term[i].coef < 0
       /\ \E i \in 1..3 : sum.term[i].coef > 0
    /\ ClauseSetLen(call.ret[1]) > 1
    /\ Cardinality(SolutionsBySat(sat, map, norm_vars)) > 1

C2_WitnessTwoTerms ==
    /\ call.fn = "encode_linear_eq_direct"
    /\ Len(call.lits[1].sum.term) = 2
    /\ SolutionsBySat(sat, map, norm_vars) # {}

\* test_encode_linear_ne_direct
TestEncodeLinearNeDirect ==
    /\ call.fn = "none"
    /\ \E sum \in TestSums :
         /\ AllDirect(map, sum)
         /\ Returned(ClauseSetCall("encode_linear_ne_direct", LinearLit(sum, "Ne"),
                                   encode_linear_ne_direct(CurEnv, sum)))
    /\ UNCHANGED <<norm_vars, map, config, norm_csp>>

NextNeDirect == AddIntVar \/ TestEncodeLinearNeDirect

SpecNeDirect == Init /\ [][NextNeDirect]_vars

\* the variables of a sum, as a set
SumVars(sum) == {sum.term[i].var : i \in 1..Len(sum.term)}

\* the direct-encoding literal of var = val
DirectLitOf(mp, var, val) ==
    LET e == mp.int_map[var][1].direct_encoding[1] IN
    e.lits[CHOOSE i \in 1..Len(e.domain) : e.domain[i] = val]

\* the clause forbidding the assignment a of the variables of sum
ForbidClause(mp, sum, a) ==
    [i \in 1..Len(sum.term) |-> Neg(DirectLitOf(mp, sum.term[i].var, a[sum.term[i].var]))]

\* C3: encode_linear_ne_direct emits one clause, the negation of the chosen
\* equality literals, for exactly each assignment of the sum's domain product
\* whose sum is 0; the decoded models are exactly the assignments with sum # 0.
C3_DirectNeOracle ==
    call.fn = "encode_linear_ne_direct" =>
        /\ ~call.panic
        /\ RunCheck
        /\ LET sum == call.lits[1].sum
               zeros == {a \in Assignments(norm_vars, SumVars(sum)) : SumValue(sum, a) = 0}
               cls == ClauseSetClauses(call.ret[1])
           IN /\ Len(cls) = Cardinality(zeros)
              /\ {cls[k] : k \in 1..Len(cls)} = {ForbidClause(map, sum, a) : a \in zeros}

C3_Witness ==
    /\ call.fn = "encode_linear_ne_direct"
    /\ Len(call.lits[1].sum.term) = 3
    /\ ClauseSetLen(call.ret[1]) > 1
    /\ SolutionsBySat(sat, map, norm_vars) # {}

\* the one-term literals over the variables of the harness
SimpleLits ==
    {LinearLit(add_coef(LinearSumConstant(c), v, k), op) :
        c \in Consts, v \in IntVars(norm_vars), k \in Coefs, op \in CmpOps}

\* a call that returned an optional clause, which the harness adds when present
ClauseCall(fn, lit, clause) ==
    [sat |-> IF clause = None THEN sat ELSE SatAddClause(sat, clause[1]),
     call |-> Call(fn, <<lit>>, <<>>, clause, FALSE)]

\* test_encode_simple_linear_direct_encoding
TestEncodeSimpleLinearDirectEncoding ==
    /\ call.fn = "none"
    /\ \E lit \in SimpleLits :
         /\ AllDirect(map, lit.sum)
         /\ Returned(ClauseCall("encode_simple_linear_direct_encoding", lit,
                                encode_simple_linear_direct_encoding(CurEnv, lit)))
    /\ UNCHANGED <<norm_vars, map, config, norm_csp>>

NextDirectSimple == AddIntVar \/ TestEncodeSimpleLinearDirectEncoding

SpecDirectSimple == Init /\ [][NextDirectSimple]_vars

\* C4: for a one-term literal over a direct-encoded x the encoder returns None
\* exactly when every domain value passes; otherwise one clause, the negated
\* literal of the failing value when exactly one fails, else the passing
\* literals; its models decode exactly to the values satisfying the literal.
C4_DirectSimpleOracle ==
    call.fn = "encode_simple_linear_direct_encoding" =>
        LET lit == call.lits[1]
            e == map.int_map[lit.sum.term[1].var][1].direct_encoding[1]
            pass == {i \in 1..Len(e.domain) :
                        Compare(lit.op, lit.sum.term[1].coef * e.domain[i] + lit.sum.constant, 0)}
            fail == (1..Len(e.domain)) \ pass
        IN /\ (call.ret = None) <=> (fail = {})
           /\ call.ret # None =>
                LET clause == call.ret[1] IN
                IF Cardinality(fail) = 1
                THEN clause = <<Neg(e.lits[CHOOSE i \in fail : TRUE])>>
                ELSE /\ Len(clause) = Cardinality(pass)
                     /\ {clause[k] : k \in 1..Len(clause)} = {e.lits[i] : i \in pass}
           /\ RunCheck
           /\ pass = {} => Models(sat) = {}

C4_Witness ==
    /\ call.fn = "encode_simple_linear_direct_encoding"
    /\ call.ret # None
    /\ Len(call.ret[1]) = 1
    /\ call.ret[1][1] > 0
    /\ Len(map.int_map[call.lits[1].sum.term[1].var][1].direct_encoding[1].domain) = 3
    /\ call.lits[1].op = "Lt"
    /\ SolutionsBySat(sat, map, norm_vars) # {}

C4_WitnessNone ==
    /\ call.fn = "encode_simple_linear_direct_encoding"
    /\ call.ret = None

----------------------------------------------------------------------------
(* Log-encoded variables under the harness *)

MaxLogValue == 7

MaxLogVars == 2

\* every domain within 0..MaxLogValue
AllLogDomains == {SortedSeq(S) : S \in (SUBSET (0..MaxLogValue)) \ {{}}}

\* domains the harness gives to its log-encoded variables, by index
LogTestDomainList == << <<0, 2, 3>>, <<1, 2>>, <<0, 1, 2, 3, 4, 5>> >>

LogTestDomain(v) == LogTestDomainList[((v - 1) % Len(LogTestDomainList)) + 1]

LogVarAdded(env) ==
    /\ SetEnv(env)
    /\ call' = Call("add_int_var_log_encoding", <<>>, <<>>, None, env.panic)

\* EncoderTester::add_int_var_log_encoding
add_int_var_log_encoding(domain, limit) ==
    /\ call.fn \in {"none", "add_int_var_log_encoding"}
    /\ Len(norm_vars.int_var) < limit
    /\ LET nv == NewIntVar(norm_vars, DomainRepr(domain))
           v == Len(nv.int_var)
       IN LogVarAdded(convert_int_var_log_encoding(Env(sat, map, nv), v))
    /\ UNCHANGED <<config, norm_csp>>

\* test_encode_log_var: one log-encoded variable, any domain
AddIntVarLogAny == \E d \in AllLogDomains : add_int_var_log_encoding(d, 1)

NextLogVar == AddIntVarLogAny

SpecLogVar == Init /\ [][NextLogVar]_vars

\* C8: a log-encoded Domain variable with low >= 0 gets BitLength(high) bit
\* literals, and the models of its bound and gap clauses decode to exactly
\* the values of the domain.
C8_LogVarOracle ==
    call.fn = "add_int_var_log_encoding" =>
        /\ ~call.panic
        /\ \A v \in IntVars(norm_vars) :
              LET d == norm_vars.int_var[v].domain
                  e == map.int_map[v][1].log_encoding[1]
              IN /\ Len(e.lits) = BitLength(d[Len(d)])
                 /\ sat.nvars = Len(e.lits)
                 /\ {get_int_value_checked(map, m, v).ret[1] : m \in Models(sat)}
                       = {d[k] : k \in 1..Len(d)}
                 /\ Cardinality(Models(sat)) = Len(d)

\* a domain with a raised lower bound, a gap, and an upper bound below 2^n - 1
C8_Witness ==
    /\ call.fn = "add_int_var_log_encoding"
    /\ Len(norm_vars.int_var) = 1
    /\ norm_vars.int_var[1].domain = <<2, 3, 5, 6>>
    /\ Cardinality(Models(sat)) = 4

AllLog(mp, sum) ==
    \A i \in 1..Len(sum.term) : mp.int_map[sum.term[i].var][1].log_encoding # None

AddIntVarLog ==
    add_int_var_log_encoding(LogTestDomain(Len(norm_vars.int_var) + 1), MaxLogVars)

LogOps == {"Eq", "Ne", "Ge"}

\* a call that allocated variables and returned a ClauseSet: r is [env, clause_set]
EnvClauseSetCall(fn, lits, mul, r) ==
    [sat |-> IF r.clause_set = Panicked THEN r.env.sat
             ELSE SatAddClauseSet(r.env.sat, r.clause_set),
     call |-> Call(fn, lits, mul, Some(r.clause_set), r.clause_set = Panicked)]

\* test_encode_linear_{eq,ne,ge}_log_encoding_*
TestEncodeLinearLog ==
    /\ call.fn \in {"none", "add_int_var_log_encoding"}
    /\ \E sum \in TestSums, op \in LogOps :
         /\ AllLog(map, sum)
         /\ Returned(EnvClauseSetCall("encode_linear_log", <<LinearLit(sum, op)>>, <<>>,
                                      encode_linear_log(CurEnv, sum, op)))
    /\ UNCHANGED <<norm_vars, map, config, norm_csp>>

NextLog == AddIntVarLog \/ TestEncodeLinearLog

SpecLog == Init /\ [][NextLog]_vars

\* C5: the clauses of encode_linear_log, with the structural clauses of the
\* log-encoded variables, have as decoded models exactly the assignments of
\* the domain product with sum op 0, for op in Eq, Ne, Ge.
C5_LogLinearOracle ==
    call.fn = "encode_linear_log" => ~call.panic /\ RunCheck

\* lengths of the positive-side and negative-side sum bit vectors of a sum
LogSumLens(sum) ==
    LET a1 == log_encoding_adder(CurEnv, LogValues(map, sum, TRUE), <<Max2(sum.constant, 0)>>, <<>>)
        a2 == log_encoding_adder(CurEnv, LogValues(map, sum, FALSE), <<Max2(-sum.constant, 0)>>, <<>>)
    IN <<Len(a1.result), Len(a2.result)>>

C5_Witness ==
    /\ call.fn = "encode_linear_log"
    /\ LET sum == call.lits[1].sum IN
       /\ Len(sum.term) = 2
       /\ \E i \in 1..2 : sum.term[i].coef < 0
       /\ \E i \in 1..2 : sum.term[i].coef > 1
       /\ sum.constant < 0
       /\ LogSumLens(sum)[1] > LogSumLens(sum)[2]
    /\ call.lits[1].op = "Ge"
    /\ SolutionsBySat(sat, map, norm_vars) # {}
    /\ SolutionsBySat(sat, map, norm_vars) # Assignments(norm_vars, IntVars(norm_vars))

C5_WitnessEq ==
    /\ call.fn = "encode_linear_log"
    /\ call.lits[1].op = "Eq"
    /\ call.lits[1].sum.constant > 0
    /\ LogSumLens(call.lits[1].sum)[1] < LogSumLens(call.lits[1].sum)[2]
    /\ SolutionsBySat(sat, map, norm_vars) # {}

C5_WitnessNe ==
    /\ call.fn = "encode_linear_log"
    /\ call.lits[1].op = "Ne"
    /\ Len(call.lits[1].sum.term) >= 2
    /\ SolutionsBySat(sat, map, norm_vars) # {}
    /\ SolutionsBySat(sat, map, norm_vars) # Assignments(norm_vars, IntVars(norm_vars))

----------------------------------------------------------------------------
(* Multiplication under the harness: test_encode_mul_log *)

MaxMulValue == 3

\* the ranges within 0..MaxMulValue
MulDomains == {[k \in 1..(hi - lo + 1) |-> lo + k - 1] : lo \in 0..MaxMulValue, hi \in 0..MaxMulValue} \ {<<>>}

\* the three variables x, y, m of the test, in the order they are added
AddIntVarLogMul == \E d \in MulDomains : add_int_var_log_encoding(d, 3)

\* test_encode_mul_log
TestEncodeMulLog ==
    /\ call.fn = "add_int_var_log_encoding"
    /\ Len(norm_vars.int_var) = 3
    /\ Returned(EnvClauseSetCall("encode_mul_log", <<>>, << <<1, 2, 3>> >>,
                                 encode_mul_log(CurEnv, 1, 2, 3)))
    /\ UNCHANGED <<norm_vars, map, config, norm_csp>>

NextMul == AddIntVarLogMul \/ TestEncodeMulLog

SpecMul == Init /\ [][NextMul]_vars

\* the bit literals of a log-encoded variable
LogLits(mp, v) == mp.int_map[v][1].log_encoding[1].lits

\* the adder's output vector of the multiplication the harness encoded
MulResult ==
    LET n0 == Len(LogLits(map, 1)) + Len(LogLits(map, 2)) + Len(LogLits(map, 3)) IN
    log_encoding_multiplier(Env([sat EXCEPT !.nvars = n0], map, norm_vars),
                            LogLits(map, 1), LogLits(map, 2), LogLits(map, 3)).result

\* C6: the clauses of encode_mul_log, with the structural clauses of x, y and
\* m, have as decoded models exactly the triples of the domain product with
\* x * y = m, and every adder output bit beyond m's width is false in every
\* model.
C6_MulOracle ==
    call.fn = "encode_mul_log" =>
        /\ ~call.panic
        /\ RunCheck
        /\ \A mm \in Models(sat) :
              \A k \in (Len(LogLits(map, 3)) + 1)..Len(MulResult) : ~LitTrue(mm, MulResult[k])

\* m has more bits than the adder has columns, and a model decodes to a
\* triple with x * y # m
C6_WitnessWideResult ==
    /\ call.fn = "encode_mul_log"
    /\ Len(MulResult) = Len(LogLits(map, 3))
    /\ Len(LogLits(map, 1)) + Len(LogLits(map, 2)) <= Len(LogLits(map, 3))
    /\ \E a \in SolutionsBySat(sat, map, norm_vars) : a[1] * a[2] # a[3]

----------------------------------------------------------------------------
(* encode_constraint under the harness *)

\* EncoderTester::env: the environment with the configuration
CurEnvConfig ==
    [sat |-> sat, map |-> map, norm_vars |-> norm_vars, panic |-> FALSE, config |-> config]

ConstraintCall(constr, int_vars, panic) ==
    [fn |-> "encode_constraint", lits |-> constr.linear_lit, mul |-> <<>>, ret |-> None,
     panic |-> panic, bool_lit |-> constr.bool_lit, int_vars |-> int_vars]

\* the harness after encode_constraint(&mut tester.env(), constr) left env
ConstraintEncoded(constr, env) ==
    /\ sat' = env.sat
    /\ map' = env.map
    /\ norm_vars' = env.norm_vars
    /\ call' = ConstraintCall(constr, Len(norm_vars.int_var), env.panic)

\* test_encode_linear_log_encoding_operators: one literal with Gt, Le or Lt
LogOperatorOps == {"Gt", "Le", "Lt"}

TestEncodeLinearLogEncodingOperators ==
    /\ call.fn \in {"none", "add_int_var_log_encoding"}
    /\ \E sum \in TestSums, op \in LogOperatorOps :
         /\ Len(sum.term) >= 1
         /\ AllLog(map, sum)
         /\ ConstraintEncoded(Constraint(<<>>, <<LinearLit(sum, op)>>),
                              encode_constraint(CurEnvConfig,
                                                Constraint(<<>>, <<LinearLit(sum, op)>>)))
    /\ UNCHANGED <<config, norm_csp>>

NextLogOperators == AddIntVarLog \/ TestEncodeLinearLogEncodingOperators

SpecLogOperators == Init /\ [][NextLogOperators]_vars

\* C7: encode_constraint on a single literal over log-encoded variables with
\* op Le, Lt or Gt and no Boolean literal emits clauses whose decoded models
\* are exactly the assignments of the domain product satisfying the literal.
C7_LogOperatorsOracle ==
    (call.fn = "encode_constraint" /\ call.lits[1].op \in {"Le", "Lt", "Gt"}) =>
        ~call.panic /\ RunCheck

\* two terms of opposite signs, a nonzero constant, strict comparison, some but
\* not all assignments satisfying it
C7_Witness ==
    /\ call.fn = "encode_constraint"
    /\ call.lits[1].op = "Lt"
    /\ Len(call.lits[1].sum.term) = 2
    /\ call.lits[1].sum.term[1].coef > 0
    /\ call.lits[1].sum.term[2].coef < 0
    /\ call.lits[1].sum.constant # 0
    /\ Len(ModelSeq(sat)) > 0
    /\ Len(ModelSeq(sat)) < Cardinality(Assignments(norm_vars, IntVars(norm_vars)))

----------------------------------------------------------------------------
(* Constraints over Boolean and order- or direct-encoded variables *)

MaxBoolVars == 2

MaxLinearLits == 3

NativeThreshold == 4

MaxThreshold == 4

\* the literals of at most NarrowVars terms range over TestSums
NarrowVars == 2

\* domains of the integer variables of the constraints, by index
ConstraintDomainList == << <<0, 1, 2>>, <<-1, 1>>, <<0, 1>>, <<0, 2>> >>

InitConstraint ==
    /\ norm_vars = NormVarsNew
    /\ sat = SatNew
    /\ map = EncodeMapNew
    /\ config = [ConfigDefault EXCEPT
                    !.native_linear_encoding_domain_product_threshold = NativeThreshold,
                    !.domain_product_threshold = MaxThreshold]
    /\ call = NoCall
    /\ norm_csp = NormNew

\* NormCSPVars::new_bool_var
AddBoolVar ==
    /\ call.fn = "none"
    /\ norm_vars.num_bool_var < MaxBoolVars
    /\ norm_vars' = [norm_vars EXCEPT !.num_bool_var = @ + 1]
    /\ UNCHANGED <<sat, map, config, call, norm_csp>>

AddConstraintIntVar ==
    /\ Len(norm_vars.int_var) < Len(ConstraintDomainList)
    /\ \E b \in BOOLEAN :
         add_int_var(ConstraintDomainList[Len(norm_vars.int_var) + 1], b)

\* literals that accompany the first literal of a constraint
CompanionLits ==
    << LinearLit(add_coef(add_coef(LinearSumConstant(-1), 1, 1), 2, 1), "Eq"),
       LinearLit(add_coef(add_coef(LinearSumConstant(-1), 1, 2), 2, -1), "Eq"),
       LinearLit(add_coef(add_coef(LinearSumConstant(-2), 1, 1), 2, -1), "Ge") >>

\* one literal per declared Boolean variable, of alternating polarity
TestBoolLits == {[k \in 1..norm_vars.num_bool_var |-> BoolLit(k, flip # (k % 2 = 0))] :
                    flip \in BOOLEAN}

\* the sum of all n variables, the first `negative` of them with coefficient -1
RECURSIVE SignedSum(_, _, _)
SignedSum(n, negative, constant) ==
    IF n = 0 THEN LinearSumConstant(constant)
    ELSE add_coef(SignedSum(n - 1, negative, constant), n, IF n <= negative THEN -1 ELSE 1)

DecomposeOps == {"Eq", "Ne", "Ge"}

\* the literals over all the declared variables, coefficients 1 and -1
DecomposeLits ==
    {LinearLit(SignedSum(Len(norm_vars.int_var), negative, constant), op) :
        negative \in 0..Len(norm_vars.int_var), constant \in Consts, op \in DecomposeOps}

\* a literal that holds for every value of its variable
AlwaysTrueLit == LinearLit(add_coef(LinearSumConstant(1), 1, 1), "Ge")

\* a disjunction of two literals that are both unsatisfiable at range level
DroppedLits ==
    << LinearLit(add_coef(LinearSumConstant(-3), 1, 1), "Ge"),
       LinearLit(add_coef(add_coef(LinearSumConstant(2), 1, 1), 2, 1), "Eq") >>

\* the disjunctions of the harness: over at most NarrowVars variables any literal,
\* then companions; over all the variables of ConstraintDomainList one literal
\* with a term for each
TestLinearLits ==
    IF Len(norm_vars.int_var) <= NarrowVars
    THEN {<<>>} \cup
         (IF Len(norm_vars.int_var) = NarrowVars THEN {DroppedLits} ELSE {}) \cup
         {<<LinearLit(sum, op)>> \o SubSeq(CompanionLits, 1, n) :
             sum \in TestSums, op \in CmpOps,
             n \in {m \in 0..Min2(MaxLinearLits - 1, Len(CompanionLits)) :
                       m = 0 \/ Len(norm_vars.int_var) = NarrowVars}}
    ELSE IF Len(norm_vars.int_var) = Len(ConstraintDomainList)
    THEN {<<lit>> : lit \in DecomposeLits} \cup
         {<<lit, AlwaysTrueLit>> : lit \in {l \in DecomposeLits : l.sum.term[1].coef = 1}}
    ELSE {}

TestEncodeConstraint ==
    /\ call.fn = "none"
    /\ \E bool_lit \in TestBoolLits, linear_lit \in TestLinearLits :
         ConstraintEncoded(Constraint(bool_lit, linear_lit),
                           encode_constraint(CurEnvConfig, Constraint(bool_lit, linear_lit)))
    /\ UNCHANGED <<config, norm_csp>>

NextConstraint == AddBoolVar \/ AddConstraintIntVar \/ TestEncodeConstraint

SpecConstraint == InitConstraint /\ [][NextConstraint]_vars

\* the Boolean variables of the constraint that was encoded
CallBoolVars == {call.bool_lit[k].var : k \in 1..Len(call.bool_lit)}

\* the integer variables the constraint was stated over
CallIntVars == 1..call.int_vars

\* the assignments of the CSP variables that satisfy the constraint
ConstraintSolutions ==
    {s \in [CallBoolVars -> BOOLEAN] \X Assignments(norm_vars, CallIntVars) :
        \/ \E k \in 1..Len(call.bool_lit) : s[1][call.bool_lit[k].var] # call.bool_lit[k].negated
        \/ \E k \in 1..Len(call.lits) : LitHolds(call.lits[k], s[2])}

\* the assignments of the CSP variables that the models of the SAT instance decode to
DecodedSolutions ==
    {<<[b \in CallBoolVars |-> LitTrue(m, map.bool_map[b][1])],
       DecodeModel(map, m, CallIntVars)>> : m \in Models(sat)}

\* C9: an assignment of the CSP variables extends to a model of the clauses
\* of encode_constraint (with the structural clauses) exactly when it
\* satisfies a Boolean literal or a linear literal of the constraint.
C9_ConstraintEquisat ==
    call.fn = "encode_constraint" => ~call.panic /\ DecodedSolutions = ConstraintSolutions

\* the number of SAT variables of the encodings of the CSP variables
EncodingVars ==
    Cardinality(CallBoolVars)
      + SumSeq([v \in 1..call.int_vars |->
                   IF map.int_map[v][1].order_encoding # None
                   THEN Len(map.int_map[v][1].order_encoding[1].lits)
                   ELSE Len(map.int_map[v][1].direct_encoding[1].lits)])

\* general channeling: one fresh variable per conjunction besides a Boolean literal
C9_WitnessChanneling ==
    /\ call.fn = "encode_constraint"
    /\ Len(call.bool_lit) = 1
    /\ Len(call.lits) = 3
    /\ sat.nvars = EncodingVars + 3
    /\ DecodedSolutions # {}

\* a decomposer introduced an auxiliary integer variable during the call
Decomposed == Len(norm_vars.int_var) > call.int_vars

\* every variable of the constraint is direct-encoded
CallAllDirect == \A v \in CallIntVars : is_direct_encoding(map.int_map[v][1])

\* the equisatisfiability of C9 on the calls that introduce no auxiliary
\* integer variable, on every emission branch
C9_UndecomposedEquisat ==
    (call.fn = "encode_constraint" /\ ~Decomposed) =>
        ~call.panic /\ DecodedSolutions = ConstraintSolutions

\* an Eq literal over direct-encoded variables was decomposed beside a Boolean
\* literal, the call completed, and a model decodes to an assignment that
\* satisfies neither the Boolean literal nor the linear literal
C9_WitnessDecomposedEq ==
    /\ call.fn = "encode_constraint"
    /\ ~call.panic
    /\ Decomposed
    /\ CallAllDirect
    /\ Len(call.bool_lit) = 1
    /\ Len(call.lits) = 1
    /\ call.lits[1].op = "Eq"
    /\ DecodedSolutions \ ConstraintSolutions # {}

----------------------------------------------------------------------------
(* The decomposers under encode_constraint *)

\* the values of config.domain_product_threshold the harness runs with
DecomposeThresholds == {1, MaxThreshold, ConfigDefault.domain_product_threshold}

\* domains of the order- and direct-encoded variables, by index
DecomposeDomainList == << <<0, 1>>, <<-1, 1>>, <<0, 1, 2>>, <<0, 2>>, <<1, 2>> >>

InitDecompose ==
    /\ norm_vars = NormVarsNew
    /\ sat = SatNew
    /\ map = EncodeMapNew
    /\ config \in {[ConfigDefault EXCEPT !.domain_product_threshold = t] :
                      t \in DecomposeThresholds}
    /\ call = NoCall
    /\ norm_csp = NormNew

AddDecomposeIntVar ==
    /\ Len(norm_vars.int_var) < Len(DecomposeDomainList)
    /\ \E b \in BOOLEAN :
         add_int_var(DecomposeDomainList[Len(norm_vars.int_var) + 1], b)

\* one more 0/1 log-encoded variable, up to one more than the term cap
AddDecomposeLogVar ==
    /\ call.fn \in {"none", "add_int_var_log_encoding"}
    /\ \A v \in IntVars(norm_vars) : map.int_map[v][1].log_encoding # None
    /\ add_int_var_log_encoding(<<0, 1>>, N_MAX_TERM + 1)

\* a literal over order- and direct-encoded variables through encode_constraint
TestDecomposeLinearLit ==
    /\ call.fn = "none"
    /\ Len(norm_vars.int_var) >= 1
    /\ \E lit \in DecomposeLits :
         ConstraintEncoded(Constraint(<<>>, <<lit>>),
                           encode_constraint(CurEnvConfig, Constraint(<<>>, <<lit>>)))
    /\ UNCHANGED <<config, norm_csp>>

\* a literal with more than N_MAX_TERM log-encoded terms through encode_constraint
TestDecomposeLinearLitLog ==
    /\ call.fn = "add_int_var_log_encoding"
    /\ Len(norm_vars.int_var) > N_MAX_TERM
    /\ \E lit \in DecomposeLits :
         ConstraintEncoded(Constraint(<<>>, <<lit>>),
                           encode_constraint(CurEnvConfig, Constraint(<<>>, <<lit>>)))
    /\ UNCHANGED <<config, norm_csp>>

NextDecompose ==
    \/ AddDecomposeIntVar
    \/ AddDecomposeLogVar
    \/ TestDecomposeLinearLit
    \/ TestDecomposeLinearLitLog

SpecDecompose == InitDecompose /\ [][NextDecompose]_vars

\* the solutions of the literal over the variables it was stated over
OriginalSolutions ==
    {a \in Assignments(norm_vars, CallIntVars) : \A k \in 1..Len(call.lits) : LitHolds(call.lits[k], a)}

\* the models of the SAT instance projected onto those variables
ProjectedSolutions == {DecodeModel(map, m, CallIntVars) : m \in Models(sat)}

\* C10: for every threshold, and for more than 6 log-encoded terms,
\* encode_constraint on a literal with op Eq, Ne or Ge completes, and the
\* models projected onto the original variables are the literal's solutions.
C10_DecomposerOracle ==
    call.fn = "encode_constraint" => ~call.panic /\ ProjectedSolutions = OriginalSolutions

\* an Eq literal over direct-encoded variables was decomposed with a nonempty
\* auxiliary domain, and the call did not complete
C10_WitnessDirectEq ==
    /\ call.fn = "encode_constraint"
    /\ call.panic
    /\ Decomposed
    /\ CallAllDirect
    /\ call.lits[1].op = "Eq"
    /\ \A v \in IntVars(norm_vars) : Len(norm_vars.int_var[v].domain) > 0

\* a Ne literal with more than N_MAX_TERM log-encoded terms was decomposed, the
\* call completed, and a solution of the literal is the projection of no model
C10_WitnessLogNe ==
    /\ call.fn = "encode_constraint"
    /\ ~call.panic
    /\ call.int_vars > N_MAX_TERM
    /\ Decomposed
    /\ call.lits[1].op = "Ne"
    /\ OriginalSolutions \ ProjectedSolutions # {}

----------------------------------------------------------------------------
(* encode under a caller that builds a NormCSP and calls encode repeatedly *)

MaxEncodeIntVars == 4

MaxEncodeConstraints == 2

MaxEncodeExtras == 1

MaxEncodeBoolVars == 1

\* the domains of the Domain-represented variables of the caller, by index
EncodeDomainList == << <<0, 1>>, <<0, 1>>, <<0, 1, 2>>, <<0, 2>> >>

EncodeDomain(v) == EncodeDomainList[((v - 1) % Len(EncodeDomainList)) + 1]

\* the configurations of the caller: every combination of the three flags, with
\* a domain product threshold that the sums over four variables reach
EncodeConfigs ==
    {[ConfigDefault EXCEPT !.use_direct_encoding = d,
                           !.direct_encoding_for_binary_vars = b,
                           !.force_use_log_encoding = l,
                           !.domain_product_threshold = MaxThreshold] :
        d \in BOOLEAN, b \in BOOLEAN, l \in BOOLEAN}

InitEncode ==
    /\ norm_vars = NormVarsNew
    /\ sat = SatNew
    /\ map = EncodeMapNew
    /\ config \in EncodeConfigs
    /\ call = NoCall
    /\ norm_csp = NormNew

\* NormCSPVars::new_bool_var
NewEncodeBoolVar ==
    /\ ~call.panic
    /\ norm_vars.num_bool_var < MaxEncodeBoolVars
    /\ norm_vars' = [norm_vars EXCEPT !.num_bool_var = @ + 1]
    /\ call' = NoCall
    /\ UNCHANGED <<sat, map, config, norm_csp>>

\* the representations the caller gives to its next variable: its domain, or
\* (the first two variables) a Binary of the declared Boolean variable
EncodeReprs(v) ==
    {DomainRepr(EncodeDomain(v))} \cup
    (IF v <= 2 /\ norm_vars.num_bool_var >= 1
     THEN {BinaryRepr(BoolLit(1, v = 2), 0, 1)} ELSE {})

\* NormCSPVars::new_int_var
NewEncodeIntVar ==
    /\ ~call.panic
    /\ Len(norm_vars.int_var) < MaxEncodeIntVars
    /\ \E repr \in EncodeReprs(Len(norm_vars.int_var) + 1) :
         norm_vars' = NewIntVar(norm_vars, repr)
    /\ call' = NoCall
    /\ UNCHANGED <<sat, map, config, norm_csp>>

\* the sum of the variables a..b with the constant c, the first with coefficient k
RECURSIVE RangeSum(_, _, _, _)
RangeSum(a, b, k, c) ==
    IF b < a THEN LinearSumConstant(c)
    ELSE add_coef(RangeSum(a, b - 1, k, c), b, IF b = a THEN k ELSE 1)

\* the linear literals of the caller: simple ones (Eq or Ne, at most two terms),
\* non-simple ones by their operator and by their length
EncodeLits ==
    { LinearLit(RangeSum(1, 1, 1, -1), "Eq"),
      LinearLit(RangeSum(2, 2, 1, -1), "Ge"),
      LinearLit(RangeSum(1, 2, 1, -1), "Eq"),
      LinearLit(RangeSum(2, 3, -1, 0), "Ne"),
      LinearLit(RangeSum(3, 4, -1, 0), "Lt"),
      LinearLit(RangeSum(1, 3, 1, -2), "Eq"),
      LinearLit(RangeSum(1, 4, -1, 0), "Ge"),
      LinearLit(RangeSum(1, 4, 1, -2), "Eq") }

LitVars(lit) == {lit.sum.term[i].var : i \in 1..Len(lit.sum.term)}

\* the constraints of the caller over the declared variables
EncodeConstraintMenu ==
    LET lits == {l \in EncodeLits : LitVars(l) \subseteq IntVars(norm_vars)}
        bs == {<<>>} \cup (IF norm_vars.num_bool_var >= 1 THEN {<<BoolLit(1, TRUE)>>} ELSE {})
    IN {Constraint(b, <<l>>) : b \in bs, l \in lits} \cup {Constraint(b, <<>>) : b \in bs}

\* the caller states its constraints before encode has emitted anything; later
\* rounds add variables only
FirstRound == norm_csp.num_encoded_vars = 0 /\ Len(sat.clauses) = 0 /\ Len(sat.graphs) = 0

\* a constraint handed over by the normalizer
AddEncodeConstraint ==
    /\ ~call.panic
    /\ FirstRound
    /\ Len(norm_csp.constraints) < MaxEncodeConstraints
    /\ \E constr \in EncodeConstraintMenu :
         norm_csp' = [norm_csp EXCEPT !.constraints = Append(@, constr)]
    /\ call' = NoCall
    /\ UNCHANGED <<norm_vars, sat, map, config>>

\* the extra constraints of the caller
EncodeExtraMenu ==
    (IF Len(norm_vars.int_var) >= 3 THEN {Mul(1, 2, 3)} ELSE {}) \cup
    (IF norm_vars.num_bool_var >= 1
     THEN {ActiveVerticesConnected(<<BoolLit(1, FALSE)>>, <<>>)} ELSE {})

AddEncodeExtra ==
    /\ ~call.panic
    /\ FirstRound
    /\ Len(norm_csp.extra_constraints) < MaxEncodeExtras
    /\ \E constr \in EncodeExtraMenu :
         norm_csp' = [norm_csp EXCEPT !.extra_constraints = Append(@, constr)]
    /\ call' = NoCall
    /\ UNCHANGED <<norm_vars, sat, map, config>>

\* the caller's record of a call of encode: the NormCSP, the map and the SAT
\* instance it was called on, and the marks taken during the call
EncodeCall(r) ==
    [fn |-> "encode", lits |-> <<>>, mul |-> <<>>,
     ret |-> Some([marks |-> r.marks, norm |-> norm_csp, map |-> map,
                   norm_vars |-> norm_vars]),
     panic |-> r.env.panic, bool_lit |-> <<>>, int_vars |-> Len(norm_vars.int_var)]

EncodeReturned(r) ==
    /\ sat' = r.env.sat
    /\ map' = r.env.map
    /\ norm_vars' = r.env.norm_vars
    /\ norm_csp' = r.norm
    /\ call' = EncodeCall(r)

\* encode(&mut norm, &mut sat, &mut map, &config)
Encode ==
    /\ ~call.panic
    /\ EncodeReturned(encode(CurEnvConfig, norm_csp))
    /\ UNCHANGED config

NextEncode ==
    \/ NewEncodeBoolVar
    \/ NewEncodeIntVar
    \/ AddEncodeConstraint
    \/ AddEncodeExtra
    \/ Encode

SpecEncode == InitEncode /\ [][NextEncode]_vars

\* C11: a call of encode made right after a call of encode returned, nothing
\* added to the NormCSP in between, allocates no SAT variable, adds no clause,
\* native constraint or connectivity constraint, and leaves the EncodeMap, the
\* variables and the rest of the NormCSP as they were
C11_EncodeIdempotent ==
    [][(call.fn = "encode" /\ ~call.panic /\ call'.fn = "encode")
         => (/\ ~call'.panic
             /\ sat' = sat
             /\ map' = map
             /\ norm_vars' = norm_vars
             /\ norm_csp' = norm_csp)]_vars

\* a second call of encode has returned, on a NormCSP whose first call encoded
\* variables, constraints and an extra constraint
C11_Witness ==
    /\ call.fn = "encode"
    /\ ~call.panic
    /\ call.ret[1].norm = norm_csp
    /\ call.ret[1].norm_vars = norm_vars
    /\ call.ret[1].map = map
    /\ norm_csp.num_encoded_vars >= 3
    /\ Len(sat.clauses) > 0
    /\ Len(sat.graphs) > 0
    /\ Len(norm_vars.int_var) > norm_csp.num_encoded_vars - 1

----------------------------------------------------------------------------
(* The encode map under a caller that also calls the int-variable encoders *)

MaxMapIntVars == 3

\* NormCSPVars::new_int_var
NewMapIntVar ==
    /\ ~call.panic
    /\ Len(norm_vars.int_var) < MaxMapIntVars
    /\ \E repr \in EncodeReprs(Len(norm_vars.int_var) + 1) :
         norm_vars' = NewIntVar(norm_vars, repr)
    /\ call' = NoCall
    /\ UNCHANGED <<sat, map, config, norm_csp>>

EncoderKinds == {"order", "direct", "log"}

\* one of the three int-variable encoders of the EncodeMap
convert_int_var(env, var, kind) ==
    CASE kind = "order" -> convert_int_var_order_encoding(env, var)
      [] kind = "direct" -> convert_int_var_direct_encoding(env, var)
      [] kind = "log" -> convert_int_var_log_encoding(env, var)

\* the caller's record of a call of an int-variable encoder: the variable, the
\* kind requested and whether the variable was mapped at the call
ConvertCall(var, kind, env) ==
    [fn |-> "convert_int_var", lits |-> <<>>, mul |-> <<>>,
     ret |-> Some([var |-> var, kind |-> kind, mapped |-> IntMapGet(map, var) # None]),
     panic |-> env.panic, bool_lit |-> <<>>, int_vars |-> Len(norm_vars.int_var)]

Converted(var, kind, env) ==
    /\ sat' = env.sat
    /\ map' = env.map
    /\ norm_vars' = env.norm_vars
    /\ call' = ConvertCall(var, kind, env)

\* map.convert_int_var_*_encoding(&norm_vars, &mut sat, var), on any declared variable
ConvertIntVar ==
    /\ ~call.panic
    /\ \E var \in IntVars(norm_vars), kind \in EncoderKinds :
         Converted(var, kind, convert_int_var(CurEnv, var, kind))
    /\ UNCHANGED <<config, norm_csp>>

\* the constraints of this caller over the declared variables
MapConstraintMenu ==
    {c \in {Constraint(<<BoolLit(1, TRUE)>>, <<LinearLit(RangeSum(1, 2, 1, -1), "Eq")>>),
            Constraint(<<>>, <<LinearLit(RangeSum(2, 2, 1, -1), "Ge")>>),
            Constraint(<<>>, <<LinearLit(RangeSum(1, 3, -1, 0), "Ge")>>)} :
        /\ \A k \in 1..Len(c.linear_lit) : LitVars(c.linear_lit[k]) \subseteq IntVars(norm_vars)
        /\ Len(c.bool_lit) <= norm_vars.num_bool_var}

AddMapConstraint ==
    /\ ~call.panic
    /\ FirstRound
    /\ Len(norm_csp.constraints) < 1
    /\ \E constr \in MapConstraintMenu :
         norm_csp' = [norm_csp EXCEPT !.constraints = Append(@, constr)]
    /\ call' = NoCall
    /\ UNCHANGED <<norm_vars, sat, map, config>>

NextEncodeMap ==
    \/ NewEncodeBoolVar
    \/ NewMapIntVar
    \/ ConvertIntVar
    \/ AddMapConstraint
    \/ Encode

\* this caller runs with and without use_direct_encoding
InitEncodeMap ==
    /\ InitEncode
    /\ ~config.force_use_log_encoding
    /\ ~config.direct_encoding_for_binary_vars

SpecEncodeMap == InitEncodeMap /\ [][NextEncodeMap]_vars

\* the slots of an Encoding that are present
PresentSlots(enc) ==
    {k \in EncoderKinds :
        CASE k = "order" -> enc.order_encoding # None
          [] k = "direct" -> enc.direct_encoding # None
          [] k = "log" -> enc.log_encoding # None}

\* C12: in every step (a call of encode or of an int-variable encoder, or a
\* declaration) an IntVar entry that is set keeps its encoding, with its kind,
\* domain and literals, and a BoolVar entry that is set keeps its literal; every
\* entry that is set has exactly one of the three slots; and a call of an
\* int-variable encoder on a mapped variable, whatever the kind requested,
\* leaves the SAT instance and the map as they were and does not fail
C12_MapAddOnce ==
    [][/\ \A v \in 1..Len(map.int_map) :
            map.int_map[v] # None => IntMapGet(map', v) = map.int_map[v]
       /\ \A b \in 1..Len(map.bool_map) :
            map.bool_map[b] # None => BoolMapGet(map', b) = map.bool_map[b]
       /\ \A v \in 1..Len(map'.int_map) :
            map'.int_map[v] # None => Cardinality(PresentSlots(map'.int_map[v][1])) = 1
       /\ (call'.fn = "convert_int_var" /\ call'.ret[1].mapped)
            => (sat' = sat /\ map' = map /\ ~call'.panic)]_vars

\* an int-variable encoder was called on a variable that encode had mapped with
\* another kind of encoding, next to a Binary variable and a mapped BoolVar
C12_Witness ==
    /\ call.fn = "convert_int_var"
    /\ call.ret[1].mapped
    /\ ~call.panic
    /\ call.ret[1].kind \notin PresentSlots(map.int_map[call.ret[1].var][1])
    /\ norm_csp.num_encoded_vars >= 2
    /\ Len(sat.clauses) > 0
    /\ \E b \in 1..Len(map.bool_map) : map.bool_map[b] # None
    /\ \E v \in 1..Len(map.int_map) :
         map.int_map[v] # None /\ PresentSlots(map.int_map[v][1]) # PresentSlots(map.int_map[call.ret[1].var][1])

----------------------------------------------------------------------------
(* The order of emission within one call of encode *)

\* a call of encode has returned
EncodeDone == call.fn = "encode" /\ ~call.panic

\* the constraints and the extra constraints the call was made on
DoneConstraints == call.ret[1].norm.constraints

DoneExtras == call.ret[1].norm.extra_constraints

\* the mark taken after the k-th constraint (k = 0: after the variable loop)
ConstraintMark(k) == call.ret[1].marks[2 + k]

\* the mark taken after the j-th extra constraint (j = 0: after the last constraint)
ExtraMark(j) == call.ret[1].marks[2 + Len(DoneConstraints) + j]

\* the literals of the encoding of a mapped integer variable
EncodingLits(e) ==
    IF e.order_encoding # None THEN e.order_encoding[1].lits
    ELSE IF e.direct_encoding # None THEN e.direct_encoding[1].lits
    ELSE e.log_encoding[1].lits

\* the integer variables encoded by the call
NewlyEncoded ==
    {v \in 1..Len(map.int_map) : map.int_map[v] # None /\ IntMapGet(call.ret[1].map, v) = None}

\* the structural clauses of a Domain variable under the map mp: what the
\* encoder of its kind emits when it allocates the variable's literals (a
\* Binary variable has none)
StructuralClausesIn(mp, nv, v) ==
    IF nv.int_var[v].kind # "Domain" THEN <<>>
    ELSE LET lits == EncodingLits(mp.int_map[v][1])
             base == IF Len(lits) = 0 THEN 0 ELSE lits[1] - 1
             kind == CHOOSE k \in PresentSlots(mp.int_map[v][1]) : TRUE
         IN convert_int_var(Env(SatAlloc(SatNew, base), EncodeMapNew, nv), v, kind).sat.clauses

StructuralClauses(v) == StructuralClausesIn(map, norm_vars, v)

FirstPos(c) == CHOOSE p \in 1..Len(sat.clauses) : sat.clauses[p] = c /\ \A q \in 1..(p - 1) : sat.clauses[q] # c

\* where the structural clauses of v are in the SAT instance
StructuralPositions(v) ==
    {FirstPos(StructuralClauses(v)[i]) : i \in 1..Len(StructuralClauses(v))}

\* the positions of the clauses added while the constraints were encoded that
\* are no structural clause of a variable: the per-constraint clauses
PerConstraintPositions ==
    ((ConstraintMark(0).clauses + 1)..ConstraintMark(Len(DoneConstraints)).clauses)
        \ UNION {StructuralPositions(v) : v \in NewlyEncoded}

ClauseVars(cl) == {Abs(cl[i]) : i \in 1..Len(cl)}

\* the SAT variables of the clauses at the positions a+1..b
SegmentVars(a, b) == UNION {ClauseVars(sat.clauses[p]) : p \in (a + 1)..b}

IntSatVars(v) == ClauseVars(EncodingLits(map.int_map[v][1]))

\* the SAT variables a constraint is about
ConstraintSatVars(c) ==
    {Abs(map.bool_map[c.bool_lit[i].var][1]) : i \in 1..Len(c.bool_lit)}
      \cup UNION {IntSatVars(v) : v \in UNION {LitVars(c.linear_lit[k]) : k \in 1..Len(c.linear_lit)}}

\* the k-th constraint was encoded k-th: what was added between the marks
\* k-1 and k mentions the SAT variables of that constraint and those allocated
\* in between only, and no connectivity constraint was added
ConstraintInPlace(k) ==
    /\ SegmentVars(ConstraintMark(k - 1).clauses, ConstraintMark(k).clauses)
         \subseteq (ConstraintSatVars(DoneConstraints[k])
                      \cup ((ConstraintMark(k - 1).nvars + 1)..ConstraintMark(k).nvars))
    /\ ConstraintMark(k).graphs = ConstraintMark(k - 1).graphs

\* the j-th extra constraint was encoded j-th, after the last constraint
ExtraInPlace(j) ==
    LET e == DoneExtras[j] IN
    /\ ExtraMark(j).linears = ExtraMark(j - 1).linears
    /\ IF e.kind = "Mul"
       THEN /\ ExtraMark(j).graphs = ExtraMark(j - 1).graphs
            /\ SegmentVars(ExtraMark(j - 1).clauses, ExtraMark(j).clauses)
                 \subseteq (IntSatVars(e.x) \cup IntSatVars(e.y) \cup IntSatVars(e.m)
                              \cup ((ExtraMark(j - 1).nvars + 1)..ExtraMark(j).nvars))
       ELSE /\ ExtraMark(j).clauses = ExtraMark(j - 1).clauses
            /\ ExtraMark(j).graphs = ExtraMark(j - 1).graphs + 1
            /\ sat.graphs[ExtraMark(j).graphs].at = ExtraMark(j).clauses
            /\ sat.graphs[ExtraMark(j).graphs].edges = e.edges
            /\ ClauseVars(sat.graphs[ExtraMark(j).graphs].lits)
                 = {Abs(map.bool_map[e.vertices[i].var][1]) : i \in 1..Len(e.vertices)}

\* constraints in input order, then the extra constraints in input order, and
\* nothing after them
ConstraintsThenExtras ==
    /\ Len(call.ret[1].marks) = 2 + Len(DoneConstraints) + Len(DoneExtras)
    /\ \A k \in 1..Len(DoneConstraints) : ConstraintInPlace(k)
    /\ \A j \in 1..Len(DoneExtras) : ExtraInPlace(j)
    /\ ExtraMark(Len(DoneExtras)).clauses = Len(sat.clauses)
    /\ ExtraMark(Len(DoneExtras)).graphs = Len(sat.graphs)

\* the structural clauses of the variables in vs come before every
\* per-constraint clause
StructuralFirst(vs) ==
    \A v \in vs : \A p \in StructuralPositions(v) : \A q \in PerConstraintPositions : p < q

\* the variables the normalizer declared, among those the call encoded
DeclaredEncoded == {v \in NewlyEncoded : v <= call.int_vars}

\* the auxiliary variables the decomposition created during the call
AuxiliaryEncoded == {v \in NewlyEncoded : v > call.int_vars}

\* C13, as stated: in a call of encode every structural clause of an integer
\* variable, auxiliary variables included, is added before any per-constraint
\* clause; the constraints are encoded in input order; the output of the extra
\* constraints comes after every per-constraint clause, in input order
C13_EmissionOrder ==
    EncodeDone => (StructuralFirst(NewlyEncoded) /\ ConstraintsThenExtras)

\* the constraint during whose encoding the auxiliary variable v was created
CreatedIn(v) ==
    CHOOSE k \in 1..Len(DoneConstraints) :
        ConstraintMark(k - 1).int_vars < v /\ v <= ConstraintMark(k).int_vars

\* C13, amended: the structural clauses of the variables the normalizer
\* declared are added, in variable order, before any per-constraint clause; the
\* structural clauses of an auxiliary variable are added while the constraint
\* that is decomposed is encoded, before the clauses that encode that constraint
\* and after those of the constraints before it; the constraints are
\* encoded in input order; the output of the extra constraints comes after
\* every per-constraint clause, in input order
C13_EmissionOrderAmended ==
    EncodeDone =>
      /\ StructuralFirst(DeclaredEncoded)
      /\ \A v \in DeclaredEncoded : \A p \in StructuralPositions(v) :
            /\ call.ret[1].marks[1].clauses < p /\ p <= ConstraintMark(0).clauses
            /\ \A w \in DeclaredEncoded : \A q \in StructuralPositions(w) : v < w => p < q
      /\ \A v \in AuxiliaryEncoded : \A p \in StructuralPositions(v) :
            /\ ConstraintMark(CreatedIn(v) - 1).clauses < p
            /\ p <= ConstraintMark(CreatedIn(v)).clauses
            /\ \A q \in PerConstraintPositions : q > ConstraintMark(CreatedIn(v) - 1).clauses => p < q
      /\ ConstraintsThenExtras

\* a call of encode on two constraints and an extra constraint: the first
\* constraint added clauses, the second was decomposed with an auxiliary
\* variable that has structural clauses
C13_Witness ==
    /\ EncodeDone
    /\ Len(DoneConstraints) = 2
    /\ Len(DoneExtras) = 1
    /\ ConstraintMark(1).clauses > ConstraintMark(0).clauses
    /\ \E v \in AuxiliaryEncoded : StructuralPositions(v) # {}
    /\ \E v \in DeclaredEncoded : StructuralPositions(v) # {}

----------------------------------------------------------------------------
(* The encoding encode selects for a variable *)

\* a linear literal of a constraint pending at the call that is not simple
\* (an operator other than Eq and Ne, or more than two terms) and has v
InNonSimpleLiteral(v) ==
    \E c \in 1..Len(DoneConstraints) : \E k \in 1..Len(DoneConstraints[c].linear_lit) :
        LET lit == DoneConstraints[c].linear_lit[k] IN
        /\ v \in LitVars(lit)
        /\ (lit.op \notin {"Eq", "Ne"} \/ Len(lit.sum.term) > 2)

\* the encoding the selection rule gives to the variable v
SelectedKind(v) ==
    IF config.force_use_log_encoding THEN "log"
    ELSE IF /\ config.use_direct_encoding
            /\ \/ norm_vars.int_var[v].kind = "Domain"
               \/ norm_vars.int_var[v].kind = "Binary" /\ config.direct_encoding_for_binary_vars
            /\ ~InNonSimpleLiteral(v)
         THEN "direct"
         ELSE "order"

\* C14: after a call of encode every variable that was unencoded at the call
\* has the log encoding if force_use_log_encoding is set; otherwise the direct
\* encoding if and only if use_direct_encoding is set, the variable is a Domain
\* (or a Binary with direct_encoding_for_binary_vars set) and occurs in no
\* non-simple linear literal of a pending constraint; otherwise the order encoding
C14_EncodingSelection ==
    EncodeDone =>
      \A v \in (call.ret[1].norm.num_encoded_vars + 1)..call.int_vars :
          /\ IntMapGet(map, v) # None
          /\ PresentSlots(map.int_map[v][1]) = {SelectedKind(v)}

\* a call of encode with use_direct_encoding that gave the direct encoding to a
\* Domain variable of simple literals only, the order encoding to a Domain
\* variable of a non-simple literal and to a Binary variable
C14_Witness ==
    /\ EncodeDone
    /\ config.use_direct_encoding
    /\ ~config.force_use_log_encoding
    /\ \E v \in DeclaredEncoded :
         /\ norm_vars.int_var[v].kind = "Domain"
         /\ map.int_map[v][1].direct_encoding # None
         /\ \E c \in 1..Len(DoneConstraints) : \E k \in 1..Len(DoneConstraints[c].linear_lit) :
               v \in LitVars(DoneConstraints[c].linear_lit[k])
    /\ \E v \in DeclaredEncoded :
         /\ norm_vars.int_var[v].kind = "Domain"
         /\ map.int_map[v][1].order_encoding # None
         /\ InNonSimpleLiteral(v)
    /\ \E v \in DeclaredEncoded :
         /\ norm_vars.int_var[v].kind = "Binary"
         /\ map.int_map[v][1].order_encoding # None

----------------------------------------------------------------------------
(* suggest_encoder over maps that mix the three encodings *)

\* the literals suggest_encoder is called on: those of the caller whose
\* variables are mapped, and one without terms
SuggestLits ==
    {l \in EncodeLits \cup {LinearLit(RangeSum(1, 0, 1, 0), "Eq"),
                            LinearLit(RangeSum(1, 0, 1, 0), "Ge"),
                            LinearLit(RangeSum(1, 1, 1, -1), "Ge")} :
        \A v \in LitVars(l) : IntMapGet(map, v) # None}

\* suggest_encoder(&env, &linear_lit): the environment is borrowed immutably
TestSuggestEncoder ==
    /\ ~call.panic
    /\ \E lit \in SuggestLits :
         LET kind == suggest_encoder(CurEnvConfig, lit) IN
         call' = [fn |-> "suggest_encoder", lits |-> <<lit>>, mul |-> <<>>,
                  ret |-> IF kind = "panic" THEN None ELSE Some(kind),
                  panic |-> kind = "panic", bool_lit |-> <<>>,
                  int_vars |-> Len(norm_vars.int_var)]
    /\ UNCHANGED <<norm_vars, sat, map, config, norm_csp>>

NextSuggest ==
    \/ NewEncodeBoolVar
    \/ NewMapIntVar
    \/ ConvertIntVar
    \/ TestSuggestEncoder

SpecSuggest == InitEncode /\ [][NextSuggest]_vars

\* the kinds of encoding of the variables of the terms of a literal
TermKinds(lit) == UNION {PresentSlots(map.int_map[v][1]) : v \in LitVars(lit)}

\* the rules in their order of priority
SuggestedByRules(lit) ==
    IF Len(lit.sum.term) = 1 /\ TermKinds(lit) = {"direct"} THEN Some("DirectSimple")
    ELSE IF lit.op \in {"Eq", "Ne"} /\ TermKinds(lit) \subseteq {"direct"} THEN Some("DirectEqNe")
    ELSE IF TermKinds(lit) \subseteq {"order", "direct"} THEN Some("MixedGe")
    ELSE IF TermKinds(lit) \subseteq {"log"} THEN Some("Log")
    ELSE None

\* C15: suggest_encoder returns DirectSimple for a one-term literal whose
\* variable is direct-encoded, whatever the operator; else DirectEqNe if the
\* operator is Eq or Ne and all terms are direct-encoded; else MixedGe if all
\* terms are order- or direct-encoded; else Log if all are log-encoded; else,
\* the literal mixing log-encoded with order- or direct-encoded terms, it
\* fails; in no case does it add to the SAT instance or to the map
C15_SuggestEncoder ==
    [][call'.fn = "suggest_encoder"
         => /\ call'.ret = SuggestedByRules(call'.lits[1])
            /\ call'.panic <=> (/\ "log" \in TermKinds(call'.lits[1])
                                /\ TermKinds(call'.lits[1]) # {"log"})
            /\ sat' = sat
            /\ map' = map]_vars

\* suggest_encoder failed on a literal of one log-encoded term and one
\* direct-encoded term, in a map that also has an order-encoded variable
C15_Witness ==
    /\ call.fn = "suggest_encoder"
    /\ call.panic
    /\ call.ret = None
    /\ Len(call.lits[1].sum.term) = 2
    /\ TermKinds(call.lits[1]) = {"log", "direct"}
    /\ \E v \in 1..Len(map.int_map) : map.int_map[v] # None /\ map.int_map[v][1].order_encoding # None

----------------------------------------------------------------------------
(* Constraints whose disjunction of linear literals is empty *)

\* the least and the greatest value of the variable v
VarLow(v) == CHOOSE x \in ReprValues(norm_vars.int_var[v]) : \A y \in ReprValues(norm_vars.int_var[v]) : x <= y

VarHigh(v) == CHOOSE x \in ReprValues(norm_vars.int_var[v]) : \A y \in ReprValues(norm_vars.int_var[v]) : x >= y

\* the bounds of a sum over the ranges of its variables
SumLow(sum) ==
    sum.constant + SumSeq([i \in 1..Len(sum.term) |->
                              Min2(sum.term[i].coef * VarLow(sum.term[i].var),
                                   sum.term[i].coef * VarHigh(sum.term[i].var))])

SumHigh(sum) ==
    sum.constant + SumSeq([i \in 1..Len(sum.term) |->
                              Max2(sum.term[i].coef * VarLow(sum.term[i].var),
                                   sum.term[i].coef * VarHigh(sum.term[i].var))])

\* the literal `sum op 0` is unsatisfiable at range level
RangeUnsat(lit) ==
    CASE lit.op = "Eq" -> SumLow(lit.sum) > 0 \/ SumHigh(lit.sum) < 0
      [] lit.op = "Ne" -> SumLow(lit.sum) = 0 /\ SumHigh(lit.sum) = 0
      [] lit.op = "Le" -> SumLow(lit.sum) > 0
      [] lit.op = "Lt" -> SumLow(lit.sum) >= 0
      [] lit.op = "Ge" -> SumHigh(lit.sum) < 0
      [] lit.op = "Gt" -> SumHigh(lit.sum) <= 0

\* the SAT literal of a Boolean literal under the map mp
BoolSatLit(mp, lit) == IF lit.negated THEN -(mp.bool_map[lit.var][1]) ELSE mp.bool_map[lit.var][1]

\* C16: a call of encode_constraint on a constraint that has no linear literal,
\* or whose linear literals are all unsatisfiable at range level, adds exactly
\* one clause, the converted Boolean literals of the constraint in their order
\* (the empty clause when there is none), and nothing else
C16_EmptyDisjunction ==
    [][(/\ call.fn = "none"
        /\ call'.fn = "encode_constraint"
        /\ \A k \in 1..Len(call'.lits) : RangeUnsat(call'.lits[k]))
         => /\ ~call'.panic
            /\ sat'.clauses = Append(sat.clauses,
                                     [k \in 1..Len(call'.bool_lit) |->
                                         BoolSatLit(map', call'.bool_lit[k])])
            /\ sat'.linears = sat.linears
            /\ sat'.graphs = sat.graphs
            /\ norm_vars' = norm_vars
            /\ map'.int_map = map.int_map]_vars

\* encode_constraint returned on a constraint of two Boolean literals and two
\* linear literals that were both dropped
C16_Witness ==
    /\ call.fn = "encode_constraint"
    /\ ~call.panic
    /\ Len(call.lits) = 2
    /\ \A k \in 1..Len(call.lits) : RangeUnsat(call.lits[k])
    /\ Len(call.bool_lit) = 2
    /\ sat.clauses[Len(sat.clauses)] = [k \in 1..2 |-> BoolSatLit(map, call.bool_lit[k])]

----------------------------------------------------------------------------
(* Constraints with a literal that is encoded to no clause *)

\* the call recorded in the next state is a call of encode_constraint that
\* returned because one of the literals was encoded to a conjunction of no clause
TriviallyTrueCall ==
    /\ call.fn = "none"
    /\ call'.fn = "encode_constraint"
    /\ ZeroLengthReturn(CurEnvConfig, Constraint(call'.bool_lit, call'.lits))

\* C17, as stated: a call of encode_constraint in which some linear literal is
\* encoded to a conjunction of no clause adds no clause, no native constraint
\* and no connectivity constraint to the SAT instance, whatever the other
\* literals and the Boolean literals are
C17_TriviallyTrue ==
    [][TriviallyTrueCall
         => /\ sat'.clauses = sat.clauses
            /\ sat'.linears = sat.linears
            /\ sat'.graphs = sat.graphs]_vars

\* C17, amended: such a call adds no native constraint, no connectivity
\* constraint and no clause besides the structural clauses of the auxiliary
\* variables that the decomposition of the constraint's literals created
C17_TriviallyTrueAmended ==
    [][TriviallyTrueCall
         => /\ sat'.clauses =
                 sat.clauses \o Concat([k \in 1..(Len(norm_vars'.int_var) - Len(norm_vars.int_var)) |->
                                           StructuralClausesIn(map', norm_vars', Len(norm_vars.int_var) + k)])
            /\ sat'.linears = sat.linears
            /\ sat'.graphs = sat.graphs]_vars

\* encode_constraint returned on a constraint of Boolean literals, a literal that
\* was decomposed with an auxiliary variable and a literal encoded to no clause
C17_Witness ==
    /\ call.fn = "encode_constraint"
    /\ ~call.panic
    /\ Len(call.lits) = 2
    /\ Len(call.bool_lit) > 0
    /\ call.lits[2] = AlwaysTrueLit
    /\ Len(norm_vars.int_var) > call.int_vars
    /\ \A k \in 1..Len(call.bool_lit) :
          \A p \in 1..Len(sat.clauses) : map.bool_map[call.bool_lit[k].var][1] \notin ClauseVars(sat.clauses[p])

----------------------------------------------------------------------------
(* Decoding the models of the structural clauses *)

MaxDecodeIntVars == 2

\* the domains of the Domain-represented variables that are decoded, by index
DecodeDomainList == << <<-1, 2, 5, 6>>, <<0, 3, 4>> >>

InitDecode ==
    /\ norm_vars = NormVarsNew
    /\ sat = SatNew
    /\ map = EncodeMapNew
    /\ config = ConfigDefault
    /\ call = NoCall
    /\ norm_csp = NormNew

\* the representations of the next variable: its domain, or a Binary of the
\* declared Boolean variable, of either polarity
DecodeReprs(v) ==
    {DomainRepr(DecodeDomainList[((v - 1) % Len(DecodeDomainList)) + 1])} \cup
    (IF norm_vars.num_bool_var >= 1
     THEN {BinaryRepr(BoolLit(1, negated), 2, 5) : negated \in BOOLEAN} ELSE {})

\* NormCSPVars::new_int_var
NewDecodeIntVar ==
    /\ ~call.panic
    /\ Len(norm_vars.int_var) < MaxDecodeIntVars
    /\ \E repr \in DecodeReprs(Len(norm_vars.int_var) + 1) :
         norm_vars' = NewIntVar(norm_vars, repr)
    /\ call' = NoCall
    /\ UNCHANGED <<sat, map, config, norm_csp>>

\* map.convert_int_var_order_encoding or map.convert_int_var_direct_encoding
ConvertDecodeIntVar ==
    /\ ~call.panic
    /\ \E var \in IntVars(norm_vars), kind \in {"order", "direct"} :
         Converted(var, kind, convert_int_var(CurEnv, var, kind))
    /\ UNCHANGED <<config, norm_csp>>

\* get_int_value: get_int_value_checked, the CheckedInt unwrapped
get_int_value(mp, m, var) == get_int_value_checked(mp, m, var)

\* map.get_int_value(&model, var) on a model of the SAT instance
TestGetIntValue ==
    /\ ~call.panic
    /\ \E var \in IntVars(norm_vars), m \in Models(sat) :
         LET r == get_int_value(map, m, var) IN
         call' = [fn |-> "get_int_value", lits |-> <<>>, mul |-> <<>>,
                  ret |-> Some([var |-> var, model |-> m, value |-> r.ret]),
                  panic |-> r.panic, bool_lit |-> <<>>, int_vars |-> Len(norm_vars.int_var)]
    /\ UNCHANGED <<norm_vars, sat, map, config, norm_csp>>

NextDecode ==
    \/ NewEncodeBoolVar
    \/ NewDecodeIntVar
    \/ ConvertDecodeIntVar
    \/ TestGetIntValue

SpecDecode == InitDecode /\ [][NextDecode]_vars

\* get_int_value was called on a mapped variable
Decoded == call.fn = "get_int_value" /\ IntMapGet(map, call.ret[1].var) # None

DecodedVar == call.ret[1].var

DecodedModel == call.ret[1].model

DecodedEncoding == map.int_map[DecodedVar][1]

\* the positions, counted from 1, of the literals of lits that are true in the model
TruePositions(m, lits) == {j \in 1..Len(lits) : LitTrue(m, lits[j])}

\* C18: for an order-encoded Domain variable and a model of the SAT instance,
\* the true literals form a prefix of lits, and get_int_value returns a value d
\* of the domain such that the literal at index i (from 0) is true if and only
\* if d >= domain[i+1]
C18_OrderRoundTrip ==
    (Decoded /\ DecodedEncoding.order_encoding # None
       /\ norm_vars.int_var[DecodedVar].kind = "Domain")
      => LET lits == DecodedEncoding.order_encoding[1].lits
             domain == norm_vars.int_var[DecodedVar].domain
         IN /\ ~call.panic
            /\ \A i \in 2..Len(lits) :
                  LitTrue(DecodedModel, lits[i]) => LitTrue(DecodedModel, lits[i - 1])
            /\ call.ret[1].value # None
            /\ \E k \in 1..Len(domain) : domain[k] = call.ret[1].value[1]
            /\ \A i \in 0..(Len(lits) - 1) :
                  LitTrue(DecodedModel, lits[i + 1]) <=> call.ret[1].value[1] >= domain[i + 2]

\* get_int_value returned a value that is neither the least nor the greatest of
\* the four values of an order-encoded Domain variable
C18_Witness ==
    /\ Decoded
    /\ DecodedEncoding.order_encoding # None
    /\ norm_vars.int_var[DecodedVar].kind = "Domain"
    /\ Len(DecodedEncoding.order_encoding[1].lits) = 3
    /\ Cardinality(TruePositions(DecodedModel, DecodedEncoding.order_encoding[1].lits)) = 2
    /\ call.ret[1].value = Some(5)

\* the greatest element of a set of naturals, 0 for the empty set
MaxOf(S) == IF S = {} THEN 0 ELSE CHOOSE x \in S : \A y \in S : y <= x

ClauseSets == {{sat.clauses[p][i] : i \in 1..Len(sat.clauses[p])} : p \in 1..Len(sat.clauses)}

\* C20: a direct-encoded Domain variable has the clause of all its literals and,
\* for every two of them, the clause of their negations; a direct-encoded
\* Binary(cond, f, t) has lits = [not c, c], domain [f, t] and no clause; in
\* either case every model of the SAT instance makes exactly one literal of lits
\* true, get_int_value fails no assertion and returns domain[i] for that i; for
\* a Binary that is t if cond is true in the model and f otherwise
C20_DirectExactlyOne ==
    (Decoded /\ DecodedEncoding.direct_encoding # None)
      => LET e == DecodedEncoding.direct_encoding[1]
             repr == norm_vars.int_var[DecodedVar]
             true == TruePositions(DecodedModel, e.lits)
         IN /\ Cardinality(true) = 1
            /\ ~call.panic
            /\ \A i \in true : call.ret[1].value = Some(e.domain[i])
            /\ repr.kind = "Domain" =>
                 /\ e.domain = repr.domain
                 /\ {e.lits[i] : i \in 1..Len(e.lits)} \in ClauseSets
                 /\ \A i, k \in 1..Len(e.lits) : i < k => {-e.lits[i], -e.lits[k]} \in ClauseSets
            /\ repr.kind = "Binary" =>
                 /\ e.lits = <<-BoolSatLit(map, repr.cond), BoolSatLit(map, repr.cond)>>
                 /\ e.domain = <<repr.f, repr.t>>
                 /\ \A p \in 1..Len(sat.clauses) : Abs(e.lits[1]) \notin ClauseVars(sat.clauses[p])
                 /\ call.ret[1].value =
                      Some(IF LitTrue(DecodedModel, BoolSatLit(map, repr.cond))
                           THEN repr.t ELSE repr.f)

\* get_int_value decoded a direct-encoded Domain variable of four values, in a
\* map that also has a direct-encoded Binary variable of a negated condition
\* whose value in the same model is t
C20_Witness ==
    /\ Decoded
    /\ ~call.panic
    /\ DecodedEncoding.direct_encoding # None
    /\ Len(DecodedEncoding.direct_encoding[1].lits) = 4
    /\ call.ret[1].value = Some(5)
    /\ \E v \in 1..Len(map.int_map) :
         /\ map.int_map[v] # None
         /\ map.int_map[v][1].direct_encoding # None
         /\ norm_vars.int_var[v].kind = "Binary"
         /\ norm_vars.int_var[v].cond.negated
         /\ get_int_value(map, DecodedModel, v).ret = Some(norm_vars.int_var[v].t)

----------------------------------------------------------------------------
(* The log encoder on variables it does not support *)

MaxUnsupportedVars == 2

\* the representations of the next variable: a Domain the log encoding
\* supports, a Domain of negative lower bound, or a Binary of the declared
\* Boolean variable
UnsupportedReprs ==
    {DomainRepr(<<1, 3>>), DomainRepr(<<-1, 2>>)} \cup
    (IF norm_vars.num_bool_var >= 1 THEN {BinaryRepr(BoolLit(1, FALSE), 0, 1)} ELSE {})

\* NormCSPVars::new_int_var
NewUnsupportedIntVar ==
    /\ ~call.panic
    /\ Len(norm_vars.int_var) < MaxUnsupportedVars
    /\ \E repr \in UnsupportedReprs : norm_vars' = NewIntVar(norm_vars, repr)
    /\ call' = NoCall
    /\ UNCHANGED <<sat, map, config, norm_csp>>

NextLogUnsupported ==
    \/ NewEncodeBoolVar
    \/ NewUnsupportedIntVar
    \/ ConvertIntVar
    \/ Encode

SpecLogUnsupported == InitEncode /\ [][NextLogUnsupported]_vars

\* a variable the log encoding does not support: a Binary, or a Domain whose
\* lower bound is negative
LogUnsupported(v) ==
    \/ norm_vars.int_var[v].kind = "Binary"
    \/ /\ norm_vars.int_var[v].kind = "Domain"
       /\ \E k \in 1..Len(norm_vars.int_var[v].domain) : norm_vars.int_var[v].domain[k] < 0

\* the variables encode has still to encode that the log encoding does not support
PendingUnsupported ==
    {v \in (norm_csp.num_encoded_vars + 1)..Len(norm_vars.int_var) :
        IntMapGet(map, v) = None /\ LogUnsupported(v)}

FirstUnsupported == CHOOSE u \in PendingUnsupported : \A w \in PendingUnsupported : u <= w

\* the SAT variables of the literals of the mapped variables of the map mp
MappedSatVars(mp) ==
    UNION {ClauseVars(EncodingLits(mp.int_map[v][1])) :
              v \in {w \in 1..Len(mp.int_map) : mp.int_map[w] # None}}

\* C21: convert_int_var_log_encoding on an unmapped Binary variable, or on an
\* unmapped Domain variable of negative lower bound, fails and leaves the SAT
\* instance and the map as they were; encode with force_use_log_encoding on a
\* NormCSP with such a variable fails at the first of them: that variable and
\* those after it get no entry, the NormCSP keeps its watermark, and the SAT
\* instance holds nothing but the literals and clauses of the variables mapped
\* before it
C21_LogUnsupported ==
    [][/\ (/\ call'.fn = "convert_int_var"
           /\ call'.ret[1].kind = "log"
           /\ ~call'.ret[1].mapped
           /\ LogUnsupported(call'.ret[1].var))
            => (call'.panic /\ sat' = sat /\ map' = map)
       /\ (/\ call'.fn = "encode"
           /\ config.force_use_log_encoding
           /\ PendingUnsupported # {})
            => /\ call'.panic
               /\ norm_csp' = norm_csp
               /\ \A v \in FirstUnsupported..Len(norm_vars.int_var) :
                     IntMapGet(map', v) = IntMapGet(map, v)
               /\ sat'.nvars = Cardinality(MappedSatVars(map') \cup (1..sat.nvars))
               /\ \A p \in 1..Len(sat'.clauses) :
                     ClauseVars(sat'.clauses[p]) \subseteq (MappedSatVars(map') \cup (1..sat.nvars))]_vars

\* encode with force_use_log_encoding failed at a Domain variable of negative
\* lower bound, after it had log-encoded the variable before it, with clauses
C21_Witness ==
    /\ call.fn = "encode"
    /\ call.panic
    /\ config.force_use_log_encoding
    /\ Len(norm_vars.int_var) = 2
    /\ norm_vars.int_var[2] = DomainRepr(<<-1, 2>>)
    /\ IntMapGet(map, 2) = None
    /\ IntMapGet(map, 1) # None
    /\ map.int_map[1][1].log_encoding # None
    /\ Len(sat.clauses) > 0
    /\ norm_csp.num_encoded_vars = 0

----------------------------------------------------------------------------
(* Channeling literals *)

\* the clauses of a conjunction, each extended with the literal l
Extended(clause_set, l) ==
    [i \in 1..ClauseSetLen(clause_set) |-> Append(ClauseSetIndex(clause_set, i - 1), l)]

\* what the emission added to the clauses of the SAT instance s0 to give s1
AddedClauses(s0, s1) == SubSeq(s1.clauses, Len(s0.clauses) + 1, Len(s1.clauses))

\* the two-conjunction shortcut: one fresh variable, one polarity for each
\* conjunction, no clause of Boolean literals
ShortcutChanneled(e, s1) ==
    /\ s1.nvars = e.env.sat.nvars + 1
    /\ \E v \in {s1.nvars, -s1.nvars} :
         AddedClauses(e.env.sat, s1)
           = Extended(e.encoded_lits[1], v) \o Extended(e.encoded_lits[2], -v)

\* the general case: one fresh variable per conjunction, the Boolean literals
\* extended with a literal of each emitted once, every clause of a conjunction
\* extended with the negation of its literal
GeneralChanneled(e, s1) ==
    LET n == Len(e.encoded_lits)
        new == AddedClauses(e.env.sat, s1)
        head == new[1]
        chan(i) == head[Len(e.bool_lits) + i]
    IN /\ s1.nvars = e.env.sat.nvars + n
       /\ Len(new) >= 1
       /\ Len(head) = Len(e.bool_lits) + n
       /\ SubSeq(head, 1, Len(e.bool_lits)) = e.bool_lits
       /\ {Abs(chan(i)) : i \in 1..n} = (e.env.sat.nvars + 1)..s1.nvars
       /\ Tail(new) = Concat([i \in 1..n |-> Extended(e.encoded_lits[i], -chan(i))])
       /\ \A p \in 2..Len(new) : new[p] # head

\* C22: when encode_constraint reaches the emission with two or more
\* conjunctions of more than one clause: if there are exactly two and no
\* Boolean literal (folded one-clause conjunctions included), one fresh SAT
\* variable is allocated, the clauses of the first conjunction get one of its
\* polarities, those of the second the other, and no clause of Boolean literals
\* is added; otherwise one fresh variable per conjunction is allocated, the
\* Boolean literals extended with one literal per conjunction are added once,
\* and every clause of a conjunction gets the negation of its own literal
C22_Channeling ==
    [][(call.fn = "none" /\ call'.fn = "encode_constraint")
         => \A e \in {BeforeEmission(CurEnvConfig, constr) :
                         constr \in {Constraint(call'.bool_lit, call'.lits)}} :
            (e.reached /\ Len(e.encoded_lits) >= 2)
              => /\ ~call'.panic
                 /\ sat'.linears = e.env.sat.linears
                 /\ sat'.graphs = e.env.sat.graphs
                 /\ IF Len(e.encoded_lits) = 2 /\ Len(e.bool_lits) = 0
                    THEN ShortcutChanneled(e, sat')
                    ELSE GeneralChanneled(e, sat')]_vars

\* encode_constraint returned on a constraint of two linear literals and no
\* Boolean literal with one channeling variable, whose two polarities are in
\* the clauses
C22_Witness ==
    /\ call.fn = "encode_constraint"
    /\ ~call.panic
    /\ Len(call.bool_lit) = 0
    /\ Len(call.lits) = 2
    /\ Len(norm_vars.int_var) = call.int_vars
    /\ sat.nvars = EncodingVars + 1
    /\ \E p, q \in 1..Len(sat.clauses) :
         /\ sat.clauses[p][Len(sat.clauses[p])] = sat.nvars
         /\ sat.clauses[q][Len(sat.clauses[q])] = -sat.nvars

----------------------------------------------------------------------------
(* Direct Eq: the nodes of the recursion that the bounds cut *)

\* the arguments of the recursive call of iteration i of the loop of the term at idx
EqNextArgs(info, idx, lower_bound, upper_bound, min_relax_for_lb, min_relax_for_ub, i) ==
    LET e == info[idx + 1]
        value == InfoDomain(e, i)
    IN [lit |-> Neg(equals(e, i)),
        lower_bound |-> lower_bound - domain_min(e) + value,
        upper_bound |-> upper_bound - domain_max(e) + value,
        min_relax_for_lb |->
            Some(Min2(IF min_relax_for_lb = None THEN CheckedIntMax
                      ELSE min_relax_for_lb[1], value - domain_min(e))),
        min_relax_for_ub |->
            Some(Min2(IF min_relax_for_ub = None THEN CheckedIntMax
                      ELSE min_relax_for_ub[1], domain_max(e) - value))]

\* the calls of encode_sub that enter `if lower_bound > 0 || upper_bound < 0`,
\* in the order of the calls, each with its arguments
RECURSIVE EqCutNodes(_, _, _, _, _, _, _)
EqCutNodes(info, clause, idx, lower_bound, upper_bound, min_relax_for_lb, min_relax_for_ub) ==
    CASE lower_bound > 0 \/ upper_bound < 0 ->
           <<[clause |-> clause, lower_bound |-> lower_bound, upper_bound |-> upper_bound,
              min_relax_for_lb |-> min_relax_for_lb, min_relax_for_ub |-> min_relax_for_ub]>>
      [] ~(lower_bound > 0 \/ upper_bound < 0) /\ idx >= Len(info) - 1 -> <<>>
      [] OTHER ->
           Concat([k \in 1..domain_size(info[idx + 1]) |->
                      Bind(EqNextArgs(info, idx, lower_bound, upper_bound,
                                      min_relax_for_lb, min_relax_for_ub, k - 1),
                           LAMBDA a :
                             EqCutNodes(info, Append(clause, a.lit), idx + 1, a.lower_bound,
                                        a.upper_bound, a.min_relax_for_lb, a.min_relax_for_ub))])
             \o EqCutNodes(info, clause, idx + 1, lower_bound, upper_bound,
                           min_relax_for_lb, min_relax_for_ub)

\* the cut nodes of the call of encode_linear_eq_direct on sum
EqDirectCutNodes(mp, sum) ==
    LET info == SortByLitsLen(DirectInfo(mp, sum)) IN
    EqCutNodes(info, <<>>, 0,
               sum.constant + SumSeq([i \in 1..Len(info) |-> domain_min(info[i])]),
               sum.constant + SumSeq([i \in 1..Len(info) |-> domain_max(info[i])]),
               None, None)

\* the clause of the node stays violated when the smallest relaxation is undone
EqRedundant(node) ==
    \/ /\ node.lower_bound > 0
       /\ node.min_relax_for_lb # None
       /\ node.lower_bound - node.min_relax_for_lb[1] > 0
    \/ /\ node.upper_bound < 0
       /\ node.min_relax_for_ub # None
       /\ node.upper_bound + node.min_relax_for_ub[1] < 0

\* the call of the general recursion that returned
EqGeneralCall ==
    /\ call.fn = "encode_linear_eq_direct"
    /\ ~call.panic
    /\ Len(call.lits[1].sum.term) # 2

InClauseSet(clause, clause_set) ==
    \E i \in 1..ClauseSetLen(clause_set) : ClauseSetIndex(clause_set, i - 1) = clause

\* C23: in the general recursion of encode_linear_eq_direct the clause of a
\* node reached with lower_bound > 0 or upper_bound < 0 is emitted only when it
\* is not redundant: it is left out when lower_bound - min_relax_for_lb > 0,
\* respectively upper_bound + min_relax_for_ub < 0
C23_EqPruning ==
    EqGeneralCall
      => \A k \in DOMAIN EqDirectCutNodes(map, call.lits[1].sum) :
           LET node == EqDirectCutNodes(map, call.lits[1].sum)[k] IN
           InClauseSet(node.clause, call.ret[1]) => ~EqRedundant(node)

\* a call over three variables that returned the clause of a node cut on the
\* lower bound whose two relaxations are each enough to violate the bound
C23_Witness ==
    /\ EqGeneralCall
    /\ Len(call.lits[1].sum.term) = 3
    /\ \E k \in DOMAIN EqDirectCutNodes(map, call.lits[1].sum) :
         LET node == EqDirectCutNodes(map, call.lits[1].sum)[k] IN
         /\ Len(node.clause) = 2
         /\ node.lower_bound > 0
         /\ EqRedundant(node)
         /\ InClauseSet(node.clause, call.ret[1])

----------------------------------------------------------------------------
(* Mixed Ge: the clauses that the test on min_relax_on_erasure leaves out *)

\* the clauses of the calls of encode_sub that return on
\* `upper_bound + min_relax_on_erasure < 0`, in the order of the calls
RECURSIVE GeSuppressed(_, _, _, _, _)
GeSuppressed(info, clause, idx, upper_bound, min_relax_on_erasure) ==
    CASE upper_bound < 0 ->
           IF min_relax_on_erasure # None /\ upper_bound + min_relax_on_erasure[1] < 0
           THEN <<clause>>
           ELSE <<>>
      [] upper_bound >= 0 /\ idx = Len(info) -> <<>>
      [] upper_bound >= 0 /\ idx + 1 = Len(info) /\ info[Len(info)].kind = "Order" -> <<>>
      [] OTHER ->
           Concat([k \in 1..(domain_size(info[idx + 1]) - 1) |->
                      LET e == info[idx + 1] IN
                      GeSuppressed(info,
                                   Append(clause, IF e.kind = "Order" THEN at_least(e, k)
                                                  ELSE Neg(equals(e, k - 1))),
                                   idx + 1,
                                   upper_bound - domain_max(e) + InfoDomain(e, k - 1),
                                   IF e.kind = "Order" THEN None
                                   ELSE Some(Min2(IF min_relax_on_erasure = None
                                                  THEN CheckedIntMax
                                                  ELSE min_relax_on_erasure[1],
                                                  domain_max(e) - InfoDomain(e, k - 1))))])
             \o GeSuppressed(info, clause, idx + 1, upper_bound, min_relax_on_erasure)

\* the clauses left out by the call of encode_linear_ge_mixed on sum
GeMixedSuppressed(mp, sum) ==
    LET info == GeMixedInfo(mp, sum) IN
    GeSuppressed(info, <<>>, 0,
                 sum.constant + SumSeq([i \in 1..Len(info) |-> domain_max(info[i])]), None)

\* every literal of the clause c is a literal of the clause d
Subsumes(c, d) == {c[k] : k \in 1..Len(c)} \subseteq {d[k] : k \in 1..Len(d)}

\* the models over the variables of the SAT instance of a list of clauses alone
ClauseModels(clauses) ==
    Models([nvars |-> sat.nvars, clauses |-> clauses, linears |-> <<>>, graphs |-> <<>>])

\* C24: every clause that encode_linear_ge_mixed leaves out on the test
\* upper_bound + min_relax_on_erasure < 0 is implied by a clause it emits, so
\* the emitted clauses have exactly the models they would have with the
\* left-out clauses added (the pruning disabled)
C24_GePruningLossless ==
    (call.fn = "encode_linear_ge_mixed" /\ ~call.panic)
      => LET left_out == GeMixedSuppressed(map, call.lits[1].sum)
             emitted == ClauseSetClauses(call.ret[1])
         IN /\ \A k \in 1..Len(left_out) :
                 \E j \in 1..Len(emitted) : Subsumes(emitted[j], left_out[k])
            /\ ClauseModels(emitted) = ClauseModels(emitted \o left_out)

\* a call that left out a clause, and whose emitted clauses have a model and
\* exclude an assignment
C24_Witness ==
    /\ call.fn = "encode_linear_ge_mixed"
    /\ ~call.panic
    /\ Len(GeMixedSuppressed(map, call.lits[1].sum)) > 0
    /\ ClauseSetLen(call.ret[1]) > 1
    /\ ClauseModels(ClauseSetClauses(call.ret[1])) # {}

----------------------------------------------------------------------------
(* is_unsatisfiable_linear over maps that mix the three encodings *)

\* the domain of the log-encoded variables of this caller: its range has a gap
RangeLogDomain == <<1, 3>>

\* a variable with the log encoding
AddRangeLogVar ==
    /\ call.fn = "none"
    /\ Len(norm_vars.int_var) < MaxIntVars
    /\ SetEnv(convert_int_var_log_encoding(
                  Env(sat, map, NewIntVar(norm_vars, DomainRepr(RangeLogDomain))),
                  Len(norm_vars.int_var) + 1))
    /\ UNCHANGED <<config, call, norm_csp>>

\* is_unsatisfiable_linear(&env, &linear_lit): the environment is borrowed immutably
TestIsUnsatisfiableLinear ==
    /\ call.fn = "none"
    /\ \E sum \in TestSums, op \in CmpOps :
         call' = Call("is_unsatisfiable_linear", <<LinearLit(sum, op)>>, <<>>,
                      Some(is_unsatisfiable_linear(CurEnv, LinearLit(sum, op))), FALSE)
    /\ UNCHANGED <<norm_vars, sat, map, config, norm_csp>>

NextUnsat == AddIntVar \/ AddRangeLogVar \/ TestIsUnsatisfiableLinear

SpecUnsat == Init /\ [][NextUnsat]_vars

\* C25: is_unsatisfiable_linear returns true exactly when the range of the
\* sum (the constant plus, per term, the range of the variable times the
\* coefficient, a negative coefficient swapping the endpoints) disagrees with
\* the operator: Eq: low > 0 or high < 0; Ne: low = high = 0; Le: low > 0;
\* Lt: low >= 0; Ge: high < 0; Gt: high <= 0. Whenever it returns true no
\* assignment within the domains satisfies the literal, so a disjunction has
\* the same solutions with the literal as without it
C25_RangeUnsat ==
    call.fn = "is_unsatisfiable_linear"
      => /\ call.ret[1] = RangeUnsat(call.lits[1])
         /\ call.ret[1] =>
              /\ \A a \in Assignments(norm_vars, IntVars(norm_vars)) :
                    ~LitHolds(call.lits[1], a)
              /\ \A other \in {LinearLit(call.lits[1].sum, op) : op \in CmpOps} :
                    {a \in Assignments(norm_vars, IntVars(norm_vars)) :
                        LitHolds(call.lits[1], a) \/ LitHolds(other, a)}
                      = {a \in Assignments(norm_vars, IntVars(norm_vars)) : LitHolds(other, a)}

\* the call returned true on a literal `sum > 0` whose sum, with a negative
\* coefficient and a log-encoded variable, has 0 as its upper end
C25_Witness ==
    /\ call.fn = "is_unsatisfiable_linear"
    /\ call.ret = Some(TRUE)
    /\ call.lits[1].op = "Gt"
    /\ SumHigh(call.lits[1].sum) = 0
    /\ Len(call.lits[1].sum.term) >= 2
    /\ \E i \in 1..Len(call.lits[1].sum.term) :
         /\ call.lits[1].sum.term[i].coef < 0
         /\ map.int_map[call.lits[1].sum.term[i].var][1].log_encoding # None

----------------------------------------------------------------------------
(* The NormCSP and the EncodeMap when encode returns *)

\* the model in which every SAT variable is false
AllFalseModel == [k \in 1..sat.nvars |-> FALSE]

\* C26: when encode returns, norm.constraints and norm.extra_constraints are
\* empty, norm.num_encoded_vars is the number of integer variables, the
\* auxiliary variables created during the call included, and every integer
\* variable has an entry in the EncodeMap, so get_int_value_checked does not
\* return None for it
C26_EncodePostCondition ==
    EncodeDone
      => /\ norm_csp.constraints = <<>>
         /\ norm_csp.extra_constraints = <<>>
         /\ norm_csp.num_encoded_vars = Len(norm_vars.int_var)
         /\ \A v \in IntVars(norm_vars) :
              /\ IntMapGet(map, v) # None
              /\ get_int_value_checked(map, AllFalseModel, v) # [panic |-> FALSE, ret |-> None]

\* encode returned on a NormCSP that had constraints and an extra constraint
\* pending, and created an auxiliary variable
C26_Witness ==
    /\ EncodeDone
    /\ Len(DoneConstraints) >= 1
    /\ Len(DoneExtras) >= 1
    /\ AuxiliaryEncoded # {}
    /\ Len(norm_vars.int_var) > call.int_vars
    /\ norm_csp.num_encoded_vars = Len(norm_vars.int_var)

----------------------------------------------------------------------------
(* ClauseSet under a caller that pushes and appends *)

MaxInserted == 4

MaxClauseLen == 2

\* the clauses the caller inserts: up to MaxClauseLen literals, the empty clause included
TestClauses ==
    UNION {[1..n -> {1, -2}] : n \in 0..MaxClauseLen}

\* ClauseSet::new() followed by a push of each clause of cls, first to last
RECURSIVE PushedInOrder(_, _)
PushedInOrder(cls, k) ==
    IF k = 0 THEN ClauseSetNew ELSE ClauseSetPush(PushedInOrder(cls, k - 1), cls[k])

\* the caller's record: ret is its ClauseSet, lits the clauses it inserted so far
ClauseSetUse(fn, clause_set, inserted) ==
    [fn |-> fn, lits |-> inserted, mul |-> <<>>, ret |-> Some(clause_set), panic |-> FALSE,
     bool_lit |-> <<>>, int_vars |-> 0]

\* let mut clause_set = ClauseSet::new()
InitClauseSet ==
    /\ norm_vars = NormVarsNew
    /\ sat = SatNew
    /\ map = EncodeMapNew
    /\ config = ConfigDefault
    /\ call = ClauseSetUse("ClauseSet::new", ClauseSetNew, <<>>)
    /\ norm_csp = NormNew

\* clause_set.push(&clause)
PushClause ==
    /\ Len(call.lits) < MaxInserted
    /\ \E clause \in TestClauses :
         call' = ClauseSetUse("ClauseSet::push", ClauseSetPush(call.ret[1], clause),
                              Append(call.lits, clause))
    /\ UNCHANGED <<norm_vars, sat, map, config, norm_csp>>

\* clause_set.append(other), other a ClauseSet that had one or two clauses pushed
AppendClauseSet ==
    /\ \E n \in 1..2 : \E cls \in [1..n -> TestClauses] :
         /\ Len(call.lits) + n <= MaxInserted
         /\ call' = ClauseSetUse("ClauseSet::append",
                                 ClauseSetAppend(call.ret[1], PushedInOrder(cls, n)),
                                 call.lits \o cls)
    /\ UNCHANGED <<norm_vars, sat, map, config, norm_csp>>

\* clause_set.append(ClauseSet::new())
AppendEmptyClauseSet ==
    /\ call.fn # "ClauseSet::append"
    /\ call' = ClauseSetUse("ClauseSet::append", ClauseSetAppend(call.ret[1], ClauseSetNew),
                            call.lits)
    /\ UNCHANGED <<norm_vars, sat, map, config, norm_csp>>

NextClauseSet == PushClause \/ AppendClauseSet \/ AppendEmptyClauseSet

SpecClauseSet == InitClauseSet /\ [][NextClauseSet]_vars

\* C27: after any sequence of push and append on a ClauseSet made by new(),
\* indices[0] = 0, indices is non-decreasing, its last element is data.len(),
\* len() is the number of clauses inserted (empty clauses included), clause i
\* is the i-th clause inserted, and the ClauseSet is the one that pushing the
\* same clauses one by one gives (append(other) is a push of each clause of other)
C27_ClauseBuffer ==
    LET clause_set == call.ret[1]
        inserted == call.lits
    IN /\ clause_set.indices[1] = 0
       /\ \A i \in 1..(Len(clause_set.indices) - 1) :
            clause_set.indices[i] <= clause_set.indices[i + 1]
       /\ clause_set.indices[Len(clause_set.indices)] = Len(clause_set.data)
       /\ ClauseSetLen(clause_set) = Len(inserted)
       /\ \A i \in 1..Len(inserted) : ClauseSetIndex(clause_set, i - 1) = inserted[i]
       /\ clause_set = PushedInOrder(inserted, Len(inserted))

\* an append of two clauses onto a ClauseSet that holds literals, with an empty
\* clause among the clauses inserted before and among those appended
C27_Witness ==
    /\ call.fn = "ClauseSet::append"
    /\ Len(call.lits) = MaxInserted
    /\ call.lits[1] = <<>>
    /\ Len(call.lits[2]) = 2
    /\ call.lits[3] = <<>>
    /\ Len(call.lits[4]) > 0

----------------------------------------------------------------------------
(* The loops of the decomposers, one iteration at a time *)

\* the auxiliary round of decompose_linear_lit with the accumulated terms kept
DecomposeIteration_KeepPending(env, st, lit) ==
    LET top == HeapPeek(st.heap) IN
    IF /\ st.dom_product * top[1] >= env.config.domain_product_threshold
       /\ Len(st.pending) >= 2
       /\ Cardinality(st.heap) >= 2
    THEN Bind(SumOfEntries(PendingEntries(st.pending), Len(st.pending)),
              LAMBDA aux_sum :
                Bind(AuxDomain(env.norm_vars, aux_sum,
                               SumOfEntries(HeapEntries(st.heap), Cardinality(st.heap)),
                               lit.sum.constant),
                     LAMBDA aux_dom :
                       Bind(Len(env.norm_vars.int_var) + 1,
                            LAMBDA aux_var :
                              [env |-> convert_int_var_order_encoding(
                                           [env EXCEPT !.norm_vars =
                                               NewIntVar(@, DomainRepr(aux_dom))],
                                           aux_var),
                               st |-> [heap |-> st.heap \cup {<<Len(aux_dom), aux_var, 1>>},
                                       pending |-> st.pending,
                                       dom_product |-> 1,
                                       ret |-> Append(st.ret,
                                                      LinearLit(add_coef(aux_sum, aux_var, -1),
                                                                IF lit.op = "Ge" THEN "Ge"
                                                                ELSE "Eq"))]])))
    ELSE [env |-> env,
          st |-> [st EXCEPT !.dom_product = @ * top[1],
                            !.pending = Append(@, top),
                            !.heap = @ \ {top}]]

\* one iteration of the `while let Some(top) = heap.peek()` loop of
\* decompose_linear_lit, entered with a nonempty heap; st is [heap, pending,
\* dom_product, ret]
DecomposeIteration(env, st, lit) ==
    LET top == HeapPeek(st.heap) IN
    IF /\ st.dom_product * top[1] >= env.config.domain_product_threshold
       /\ Len(st.pending) >= 2
       /\ Cardinality(st.heap) >= 2
    THEN Bind(SumOfEntries(PendingEntries(st.pending), Len(st.pending)),
              LAMBDA aux_sum :
                Bind(AuxDomain(env.norm_vars, aux_sum,
                               SumOfEntries(HeapEntries(st.heap), Cardinality(st.heap)),
                               lit.sum.constant),
                     LAMBDA aux_dom :
                       Bind(Len(env.norm_vars.int_var) + 1,
                            LAMBDA aux_var :
                              [env |-> convert_int_var_order_encoding(
                                           [env EXCEPT !.norm_vars =
                                               NewIntVar(@, DomainRepr(aux_dom))],
                                           aux_var),
                               st |-> [heap |-> st.heap \cup {<<Len(aux_dom), aux_var, 1>>},
                                       pending |-> <<>>,
                                       dom_product |-> 1,
                                       ret |-> Append(st.ret,
                                                      LinearLit(add_coef(aux_sum, aux_var, -1),
                                                                IF lit.op = "Ge" THEN "Ge"
                                                                ELSE "Eq"))]])))
    ELSE [env |-> env,
          st |-> [st EXCEPT !.dom_product = @ * top[1],
                            !.pending = Append(@, top),
                            !.heap = @ \ {top}]]

\* one iteration of the `while queue_positive.len() + queue_negative.len() >
\* N_MAX_TERM` loop of decompose_linear_lit_log; st is [queue_positive,
\* queue_negative, ret]
DecomposeLogIteration(env, st, lit) ==
    LET selecting_negative == ~(Len(st.queue_positive) > Len(st.queue_negative))
        target_queue == IF selecting_negative THEN st.queue_negative ELSE st.queue_positive
        another_queue == IF selecting_negative THEN st.queue_positive ELSE st.queue_negative
        n_pack == Min2(N_MAX_TERM, Len(target_queue))
        rest == SubSeq(target_queue, n_pack + 1, Len(target_queue))
    IN Bind(SumOfEntries(SubSeq(target_queue, 1, n_pack), n_pack),
            LAMBDA aux_sum :
              Bind(AuxDomain(env.norm_vars, aux_sum,
                             SumOfEntries(rest \o another_queue, Len(rest) + Len(another_queue)),
                             lit.sum.constant),
                   LAMBDA refined :
                     Bind(Len(env.norm_vars.int_var) + 1,
                          LAMBDA aux_var :
                            Bind(Append(rest, <<aux_var, IF selecting_negative THEN -1 ELSE 1>>),
                                 LAMBDA pushed :
                                   [env |-> convert_int_var_log_encoding(
                                                [env EXCEPT !.norm_vars =
                                                    NewIntVar(@, DomainRepr(
                                                        IF selecting_negative
                                                        THEN DomainNegate(refined)
                                                        ELSE refined))],
                                                aux_var),
                                    st |-> [queue_positive |->
                                                IF selecting_negative THEN st.queue_positive
                                                ELSE pushed,
                                            queue_negative |->
                                                IF selecting_negative THEN pushed
                                                ELSE st.queue_negative,
                                            ret |-> Append(st.ret,
                                                      LinearLit(
                                                        add_coef(aux_sum, aux_var,
                                                                 IF selecting_negative THEN 1
                                                                 ELSE -1),
                                                        IF lit.op = "Ge" THEN "Ge"
                                                        ELSE "Eq"))]]))))

\* the values of config.domain_product_threshold of the callers of the loops
StepThresholds == {0} \cup DecomposeThresholds

MaxStepLogVars == 12

InitDecomposeSteps ==
    /\ norm_vars = NormVarsNew
    /\ sat = SatNew
    /\ map = EncodeMapNew
    /\ config \in {[ConfigDefault EXCEPT !.domain_product_threshold = t] : t \in StepThresholds}
    /\ call = NoCall
    /\ norm_csp = NormNew

\* one more order- or direct-encoded variable: those of even index are direct-encoded
AddStepIntVar ==
    /\ Len(norm_vars.int_var) < Len(DecomposeDomainList)
    /\ add_int_var(DecomposeDomainList[Len(norm_vars.int_var) + 1],
                   Len(norm_vars.int_var) % 2 = 1)

\* one more 0/1 log-encoded variable
AddStepLogVar ==
    /\ call.fn \in {"none", "add_int_var_log_encoding"}
    /\ \A v \in IntVars(norm_vars) : map.int_map[v][1].log_encoding # None
    /\ add_int_var_log_encoding(<<0, 1>>, MaxStepLogVars)

\* the literals of the callers of the loops: a term for each declared variable,
\* none or half of them with coefficient -1
StepLits ==
    {LinearLit(SignedSum(Len(norm_vars.int_var), negative, constant), op) :
        negative \in {0, Len(norm_vars.int_var) \div 2}, constant \in Consts,
        op \in {"Ge", "Eq"}}

\* a call in progress: loop is the state of its loop, steps the iterations
\* made, done whether the loop was left and the last literal pushed
LoopCall(fn, lit, loop, steps, done, panic) ==
    [fn |-> fn, lits |-> <<lit>>, mul |-> <<>>,
     ret |-> Some([loop |-> loop, steps |-> steps, done |-> done]),
     panic |-> panic, bool_lit |-> <<>>, int_vars |-> call.int_vars]

InLoop(fn) == call.fn = fn /\ ~call.panic /\ ~call.ret[1].done

\* the call left its loop: it panicked, or pushed its last literal
LoopLeft(fn) == call.fn = fn /\ (call.panic \/ call.ret[1].done)

\* decompose_linear_lit from its entry to the loop
BeginDecompose ==
    /\ call.fn = "none"
    /\ Len(norm_vars.int_var) >= 2
    /\ \E lit \in StepLits :
         call' = [LoopCall("decompose_linear_lit", lit,
                           [heap |-> {<<Len(EncodingDomain(map.int_map[lit.sum.term[i].var][1])),
                                        lit.sum.term[i].var, lit.sum.term[i].coef>> :
                                         i \in 1..Len(lit.sum.term)},
                            pending |-> <<>>, dom_product |-> 1, ret |-> <<>>],
                           0, FALSE, FALSE)
                  EXCEPT !.int_vars = Len(norm_vars.int_var)]
    /\ UNCHANGED <<norm_vars, sat, map, config, norm_csp>>

\* the test of the loop and, the heap nonempty, one iteration; the heap empty,
\* the push of the last literal
IterateDecompose ==
    /\ InLoop("decompose_linear_lit")
    /\ LET st == call.ret[1].loop
           lit == call.lits[1]
       IN IF st.heap = {}
          THEN /\ call' = LoopCall(call.fn, lit,
                                   [st EXCEPT !.ret =
                                       Append(@, LinearLit(
                                           LinearSumAdd(SumOfEntries(PendingEntries(st.pending),
                                                                     Len(st.pending)),
                                                        lit.sum.constant), lit.op))],
                                   call.ret[1].steps, TRUE, FALSE)
               /\ UNCHANGED <<norm_vars, sat, map>>
          ELSE \E r \in {DecomposeIteration(CurEnvConfig, st, lit)} :
                 /\ SetEnv(r.env)
                 /\ call' = LoopCall(call.fn, lit, r.st, call.ret[1].steps + 1, FALSE,
                                     r.env.panic)
    /\ UNCHANGED <<config, norm_csp>>

\* decompose_linear_lit_log from its entry to the loop
BeginDecomposeLog ==
    /\ call.fn = "add_int_var_log_encoding"
    /\ ~call.panic
    /\ Len(norm_vars.int_var) >= N_MAX_TERM
    /\ \E lit \in StepLits :
         LET entries == [i \in 1..Len(lit.sum.term) |->
                            <<lit.sum.term[i].var, lit.sum.term[i].coef>>]
         IN call' = [LoopCall("decompose_linear_lit_log", lit,
                              [queue_positive |-> SelectSeq(entries, LAMBDA e : e[2] > 0),
                               queue_negative |-> SelectSeq(entries, LAMBDA e : e[2] < 0),
                               ret |-> <<>>],
                              0, FALSE, FALSE)
                     EXCEPT !.int_vars = Len(norm_vars.int_var)]
    /\ UNCHANGED <<norm_vars, sat, map, config, norm_csp>>

QueuedTerms(st) == Len(st.queue_positive) + Len(st.queue_negative)

\* the test of the loop and, more than N_MAX_TERM terms queued, one iteration;
\* otherwise the push of the last literal
IterateDecomposeLog ==
    /\ InLoop("decompose_linear_lit_log")
    /\ LET st == call.ret[1].loop
           lit == call.lits[1]
       IN IF QueuedTerms(st) <= N_MAX_TERM
          THEN /\ call' = LoopCall(call.fn, lit,
                                   [st EXCEPT !.ret =
                                       Append(@, LinearLit(
                                           LinearSumAdd(
                                               SumOfEntries(st.queue_positive \o st.queue_negative,
                                                            QueuedTerms(st)),
                                               lit.sum.constant), lit.op))],
                                   call.ret[1].steps, TRUE, FALSE)
               /\ UNCHANGED <<norm_vars, sat, map>>
          ELSE \E r \in {DecomposeLogIteration(CurEnvConfig, st, lit)} :
                 /\ SetEnv(r.env)
                 /\ call' = LoopCall(call.fn, lit, r.st, call.ret[1].steps + 1, FALSE,
                                     r.env.panic)
    /\ UNCHANGED <<config, norm_csp>>

NextDecomposeSteps ==
    \/ AddStepIntVar
    \/ AddStepLogVar
    \/ BeginDecompose
    \/ IterateDecompose
    \/ BeginDecomposeLog
    \/ IterateDecomposeLog

\* a loop that was entered goes on: weak fairness of the two iterations,
\* WF_vars(IterateDecompose) and WF_vars(IterateDecomposeLog), each written with
\* InLoop, the condition under which the iteration is enabled
SpecDecomposeSteps ==
    InitDecomposeSteps /\ [][NextDecomposeSteps]_vars
      /\ ([]<>(~InLoop("decompose_linear_lit")) \/ []<><<IterateDecompose>>_vars)
      /\ ([]<>(~InLoop("decompose_linear_lit_log")) \/ []<><<IterateDecomposeLog>>_vars)

\* an iteration of the loop of decompose_linear_lit was made
DecomposeStepped ==
    /\ InLoop("decompose_linear_lit")
    /\ call'.fn = call.fn
    /\ call'.ret[1].steps = call.ret[1].steps + 1

\* an iteration of the loop of decompose_linear_lit_log was made
DecomposeLogStepped ==
    /\ InLoop("decompose_linear_lit_log")
    /\ call'.fn = call.fn
    /\ call'.ret[1].steps = call.ret[1].steps + 1

\* C28: both decomposers terminate, for every literal and every threshold. In
\* decompose_linear_lit an iteration that introduces an auxiliary variable
\* takes at least two accumulated terms and puts one term back on the heap,
\* and every other iteration moves one term from the heap to the accumulated
\* terms. In decompose_linear_lit_log an iteration is made only with more than
\* N_MAX_TERM terms queued, takes at least two terms from the longer queue and
\* puts one back, and the last literal has at most N_MAX_TERM terms
C28_DecomposersTerminate ==
    /\ [][/\ DecomposeStepped =>
               LET st == call.ret[1].loop
                   nx == call'.ret[1].loop
               IN IF Len(nx.ret) > Len(st.ret)
                  THEN /\ Len(st.pending) >= 2
                       /\ nx.pending = <<>>
                       /\ st.heap \subseteq nx.heap
                       /\ Cardinality(nx.heap) = Cardinality(st.heap) + 1
                  ELSE /\ Len(nx.pending) = Len(st.pending) + 1
                       /\ nx.heap \subseteq st.heap
                       /\ Cardinality(nx.heap) = Cardinality(st.heap) - 1
                       /\ nx.pending[Len(nx.pending)] \in st.heap
           /\ DecomposeLogStepped =>
               LET before == call.ret[1].loop
                   after == call'.ret[1].loop
                   longer == IF Len(before.queue_positive) > Len(before.queue_negative)
                             THEN "queue_positive" ELSE "queue_negative"
                   other == IF longer = "queue_positive" THEN "queue_negative"
                            ELSE "queue_positive"
               IN /\ QueuedTerms(before) > N_MAX_TERM
                  /\ after[other] = before[other]
                  /\ Len(after[longer]) <= Len(before[longer]) - 2 + 1
                  /\ QueuedTerms(after) < QueuedTerms(before)
           /\ (call.fn = "decompose_linear_lit_log" /\ call'.fn = call.fn /\ call'.ret[1].done)
                => LET last == call'.ret[1].loop.ret[Len(call'.ret[1].loop.ret)] IN
                   Len(last.sum.term) <= N_MAX_TERM]_vars
    /\ (InLoop("decompose_linear_lit") \/ InLoop("decompose_linear_lit_log"))
         ~> (LoopLeft("decompose_linear_lit") \/ LoopLeft("decompose_linear_lit_log"))

\* decompose_linear_lit returned after two iterations that introduced an
\* auxiliary variable
C28_Witness ==
    /\ call.fn = "decompose_linear_lit"
    /\ ~call.panic
    /\ call.ret[1].done
    /\ Len(call.ret[1].loop.ret) >= 3
    /\ Len(norm_vars.int_var) = call.int_vars + 2

----------------------------------------------------------------------------
(* Mixed Ge: the last term, order-encoded *)

MaxColumnBits == 2

MaxCarry == 2

\* the info vector log_encoding_adder builds for a column: a 0/1 term per bit
\* of the column, the carry in, the carry out with coefficient -2 and the
\* result bit with coefficient -1
ColumnInfos(col, carry, carry_next, result_lit) ==
    [j \in 1..Len(col) |-> InfoOrder(1, BitOrderEncoding(col[j]))]
      \o <<InfoOrder(1, OrderEncoding(Strict([j \in 1..(Len(carry) + 1) |-> j - 1]), carry)),
           InfoOrder(-2, OrderEncoding(Strict([j \in 1..(Len(carry_next) + 1) |-> j - 1]),
                                       carry_next)),
           InfoOrder(-1, BitOrderEncoding(result_lit))>>

\* a call of encode_linear_ge_mixed_from_info: ret holds its arguments and the
\* ClauseSet it returned
FromInfoCall(info, constant, clause_set) ==
    [fn |-> "encode_linear_ge_mixed_from_info", lits |-> <<>>, mul |-> <<>>,
     ret |-> Some([info |-> info, constant |-> constant, clause_set |-> clause_set]),
     panic |-> clause_set = Panicked, bool_lit |-> <<>>, int_vars |-> Len(norm_vars.int_var)]

\* the call encode_linear_ge_mixed makes, on the info vector of a sum
TestFromInfoOfSum ==
    /\ call.fn = "none"
    /\ \E sum \in TestSums :
         /\ AllOrderOrDirect(map, sum)
         /\ \E clause_set \in {encode_linear_ge_mixed_from_info(GeMixedInfo(map, sum),
                                                                sum.constant)} :
              /\ call' = FromInfoCall(GeMixedInfo(map, sum), sum.constant, clause_set)
              /\ sat' = IF clause_set = Panicked THEN sat ELSE SatAddClauseSet(sat, clause_set)
    /\ UNCHANGED <<norm_vars, map, config, norm_csp>>

\* one of the two calls log_encoding_adder makes for a column of n_bits bits
\* with a carry in of n_carry literals and the constant bit k
TestFromInfoOfColumn ==
    /\ call.fn = "none"
    /\ Len(norm_vars.int_var) = 0
    /\ \E n_bits \in 0..MaxColumnBits, n_carry \in 0..MaxCarry, k \in {0, 1}, negated \in BOOLEAN :
         LET cnt == k + n_bits + n_carry
             infos == ColumnInfos([j \in 1..n_bits |-> j],
                                  [j \in 1..n_carry |-> n_bits + j],
                                  [j \in 1..(cnt \div 2) |-> n_bits + n_carry + j],
                                  n_bits + n_carry + cnt \div 2 + 1)
         IN \E info \in {IF negated THEN NegateInfos(infos) ELSE infos} :
              \E clause_set \in {encode_linear_ge_mixed_from_info(
                                     info, IF negated THEN -k ELSE k)} :
                /\ call' = FromInfoCall(info, IF negated THEN -k ELSE k, clause_set)
                /\ sat' = IF clause_set = Panicked THEN sat
                          ELSE SatAddClauseSet(
                                   SatAlloc(sat, n_bits + n_carry + cnt \div 2 + 1), clause_set)
    /\ UNCHANGED <<norm_vars, map, config, norm_csp>>

NextGeLast == AddIntVar \/ TestFromInfoOfSum \/ TestFromInfoOfColumn

SpecGeLast == Init /\ [][NextGeLast]_vars

\* the values of upper_bound with which encode_sub reaches the last term, that
\* term order-encoded, past the test `upper_bound < 0`
RECURSIVE GeLastOrderBounds(_, _, _)
GeLastOrderBounds(info, idx, upper_bound) ==
    CASE upper_bound < 0 -> {}
      [] upper_bound >= 0 /\ idx = Len(info) -> {}
      [] upper_bound >= 0 /\ idx + 1 = Len(info) /\ info[Len(info)].kind = "Order" ->
           {upper_bound}
      [] OTHER ->
           UNION {GeLastOrderBounds(info, idx + 1,
                                    upper_bound - domain_max(info[idx + 1])
                                      + InfoDomain(info[idx + 1], i)) :
                     i \in 0..(domain_size(info[idx + 1]) - 2)}
             \cup GeLastOrderBounds(info, idx + 1, upper_bound)

\* C29: whenever encode_sub reaches the last term, order-encoded, with
\* upper_bound >= 0, at_least_val(domain_max - upper_bound) is True or a
\* literal, never False, so the call does not panic; this for the info vectors
\* of sums and for those log_encoding_adder builds for its columns
C29_LastTermNeverFalse ==
    call.fn = "encode_linear_ge_mixed_from_info"
      => LET info == call.ret[1].info
             last == info[Len(info)]
             start == call.ret[1].constant + SumSeq([i \in 1..Len(info) |-> domain_max(info[i])])
         IN /\ ~call.panic
            /\ \A upper_bound \in GeLastOrderBounds(info, 0, start) :
                 /\ upper_bound >= 0
                 /\ at_least_val(last, -(upper_bound - domain_max(last))).tag \in {"True", "Lit"}

\* a column of the adder with two bits and a carry in of two literals whose
\* last term, the result bit, was reached with two values of upper_bound, one
\* giving True and one a literal
C29_Witness ==
    /\ call.fn = "encode_linear_ge_mixed_from_info"
    /\ Len(norm_vars.int_var) = 0
    /\ Len(call.ret[1].info) = 5
    /\ LET info == call.ret[1].info
           last == info[Len(info)]
           bounds == GeLastOrderBounds(info, 0, call.ret[1].constant
                                        + SumSeq([i \in 1..Len(info) |-> domain_max(info[i])]))
       IN /\ \E b \in bounds : at_least_val(last, -(b - domain_max(last))).tag = "True"
          /\ \E b \in bounds : at_least_val(last, -(b - domain_max(last))).tag = "Lit"

----------------------------------------------------------------------------
(* The auxiliary literals of the log encoders *)

\* test_encode_linear_*_log_encoding_*, on the variables of those tests
TestEncodeLinearLogOfTestVars ==
    /\ \A v \in IntVars(norm_vars) : norm_vars.int_var[v] = DomainRepr(LogTestDomain(v))
    /\ TestEncodeLinearLog

NextLogAux ==
    AddIntVarLog \/ AddIntVarLogMul \/ TestEncodeLinearLogOfTestVars \/ TestEncodeMulLog

SpecLogAux == Init /\ [][NextLogAux]_vars

\* the truth values a model gives to the bit literals of the integer variables
BitView(mp, nv, m) ==
    [v \in IntVars(nv) |-> [k \in 1..Len(LogLits(mp, v)) |-> LitTrue(m, LogLits(mp, v)[k])]]

\* the SAT variables that are not bit literals of an integer variable
AuxVars(s, mp, nv) ==
    (1..s.nvars) \ UNION {{LogLits(mp, v)[k] : k \in 1..Len(LogLits(mp, v))} : v \in IntVars(nv)}

\* C30: after encode_linear_log or encode_mul_log any two models that agree on
\* the bit literals of the integer variables agree on every auxiliary literal,
\* so the enumeration that blocks a model over all SAT variables
\* (enumerate_valid_assignments_by_sat) meets each decoded assignment once
C30_AuxDetermined ==
    (call.fn \in {"encode_linear_log", "encode_mul_log"} /\ ~call.panic)
      => LET ms == ModelSeq(sat) IN
         /\ \A i \in 1..Len(ms) : \A j \in 1..Len(ms) :
               BitView(map, norm_vars, ms[i]) = BitView(map, norm_vars, ms[j])
                 => \A a \in AuxVars(sat, map, norm_vars) : ms[i][a] = ms[j][a]
         /\ Len(ms) = Cardinality(SolutionsBySat(sat, map, norm_vars))

\* a multiplication with auxiliary literals for partial products, carries and
\* surplus output bits, and several models that differ on them
C30_Witness ==
    /\ call.fn = "encode_mul_log"
    /\ ~call.panic
    /\ Len(MulResult) > Len(LogLits(map, 3))
    /\ Cardinality(AuxVars(sat, map, norm_vars))
         > Len(LogLits(map, 1)) * Len(LogLits(map, 2)) + Len(MulResult) - Len(LogLits(map, 3))
    /\ \E m1 \in Models(sat), m2 \in Models(sat) :
         \E a \in AuxVars(sat, map, norm_vars) : m1[a] # m2[a]

\* a sum whose adder has a column with a carry of two literals
C30_WitnessLinear ==
    /\ call.fn = "encode_linear_log"
    /\ ~call.panic
    /\ call.lits[1].op = "Eq"
    /\ Len(call.lits[1].sum.term) = 2
    /\ \A i \in 1..2 : call.lits[1].sum.term[i].coef = MaxCoef
    /\ Cardinality(AuxVars(sat, map, norm_vars)) >= 4
    /\ Len(ModelSeq(sat)) = 0

====
